---- MODULE Spec2Model ----
(***************************************************************************)
(* Model of the per-project pipeline state store of cineforge              *)
(* (project_utils.py): the document (json) backend, the relational         *)
(* (sqlite) backend, full-state save, single-document import and bulk      *)
(* migration; and of the celery tasks that report on the store (tasks.py). *)
(*                                                                         *)
(* Conventions.  An optional value (Python None or a value) is a tuple:    *)
(* None is << >> and Some(v) is <<v>>.  A project name is the sequence of  *)
(* its characters; a dict is a function on its set of keys.  An error      *)
(* message is [text, len]: its leading len characters of the text text.    *)
(* Every store call reads the clock once (second resolution), so two calls *)
(* may see the same time.                                                  *)
(***************************************************************************)
EXTENDS Integers, Sequences, FiniteSets, TLC

VARIABLES
    backend,   \* STATE_BACKEND of the running process: "json" or "sqlite"
    files,     \* PROJECTS_DIR: file stem (without ".json") -> stored document
    db,        \* the sqlite database: projects, steps, artifacts, history tables
    clock,     \* the wall clock in seconds
    call,      \* the last store call: its name and arguments
    ret,       \* the value the last call returned (None, or Some(state))
    listed,    \* the value the last list_projects() returned
    prior,     \* the stores as they were when the last call started
    nops,      \* number of calls made so far
    job,       \* the celery task dispatched to the worker, if any
    workers,   \* the store calls in progress on concurrent workers, if any
    tmp        \* PROJECTS_DIR: file stem -> content of its "<stem>.json.tmp"

vars == <<backend, files, db, clock, call, ret, listed, prior, nops, job, workers, tmp>>

\* ---------------------------------------------------------------- bounds

\* Calls per behaviour, and the last second the clock reaches.
MaxOps == 3
MaxClock == 2

\* ------------------------------------------------------------ primitives

None == << >>
Some(v) == <<v>>

Range(f) == {f[x] : x \in DOMAIN f}

EmptyDict == [x \in {} |-> x]

\* Python truthiness of an optional string: None and "" are falsy.
Truthy(opt) == opt # None /\ opt[1] # ""

Min(a, b) == IF a <= b THEN a ELSE b

\* dict.update(): the keys of new replace or extend those of old.
DictUpdate(old, new) == new @@ old

\* d.get(k) on a dict of optional values: None when the key is missing.
Get(d, k) == IF k \in DOMAIN d THEN d[k] ELSE None

\* ------------------------------------------------------ program constants

PIPELINE_STEPS ==
    << "narrative_deconstructed", "screenplay_generated", "storyboard_generated",
       "visual_assets_generated", "video_synthesized" >>

CanonicalSteps == Range(PIPELINE_STEPS)

\* The top-level convenience pointers of a state.
ARTIFACT_KEYS == {"schema_file", "screenplay_file", "storyboard_file", "video_file"}

\* error[:500]
ERROR_LIMIT == 500

\* The characters re.sub(r'[^a-zA-Z0-9_-]', '_', name) keeps.
SafeChars ==
    { "a", "b", "c", "d", "e", "f", "g", "h", "i", "j", "k", "l", "m",
      "n", "o", "p", "q", "r", "s", "t", "u", "v", "w", "x", "y", "z",
      "A", "B", "C", "D", "E", "F", "G", "H", "I", "J", "K", "L", "M",
      "N", "O", "P", "Q", "R", "S", "T", "U", "V", "W", "X", "Y", "Z",
      "0", "1", "2", "3", "4", "5", "6", "7", "8", "9", "_", "-" }

\* The file stem of get_project_path(project_name).
get_project_path(project_name) ==
    [i \in DOMAIN project_name |->
        IF project_name[i] \in SafeChars THEN project_name[i] ELSE "_"]

\* error[:n] of a message.
Truncate(msg, n) == [msg EXCEPT !.len = Min(@, n)]

DefaultStep ==
    [status |-> "not_started", started_at |-> None, finished_at |-> None,
     error |-> None, outputs |-> EmptyDict]

\* Mutant of _default_state: the last pipeline step is not seeded.
DefaultStateNoVideo(project_name, now) ==
    [project |-> project_name, created_at |-> now, updated_at |-> now,
     steps |-> [s \in CanonicalSteps \ {"video_synthesized"} |-> DefaultStep],
     artifacts |-> [a \in ARTIFACT_KEYS |-> None],
     history |-> << >>]

_default_state(project_name, now) ==
    [project |-> project_name, created_at |-> now, updated_at |-> now,
     steps |-> [s \in CanonicalSteps |-> DefaultStep],
     artifacts |-> [a \in ARTIFACT_KEYS |-> None],
     history |-> << >>]


\* f"step:{step_key}:{status}", kept as its three parts.
StepEvent(step_key, what) == <<"step", step_key, what>>

\* {"prev": prev} and {"error": msg}: the one key of the meta dict and its value.
PrevMeta(prev) == <<"prev", prev>>
ErrorMeta(msg) == <<"error", msg>>

TerminalStatuses == {"success", "failed"}

\* ------------------------------------------------------- document backend

\* load_project, json branch: the parsed document, or None when no file exists.
JsonLoad(fs, project_name) ==
    LET path == get_project_path(project_name)
    IN IF path \in DOMAIN fs THEN Some(fs[path]) ELSE None

\* save_project, json branch: write the temporary file and rename it over the target.
JsonSave(fs, project_name, project_data) ==
    (get_project_path(project_name) :> project_data) @@ fs

\* list_projects, json branch: the stems of the "*.json" files.
JsonList(fs) == DOMAIN fs

\* delete_project, json branch.
JsonDelete(fs, project_name) ==
    LET path == get_project_path(project_name)
    IN [f \in DOMAIN fs \ {path} |-> fs[f]]

\* init_project, json branch: the state it returns.
JsonInitState(fs, project_name, now) ==
    LET state == JsonLoad(fs, project_name)
    IN IF state = None THEN _default_state(project_name, now) ELSE state[1]

\* init_project, json branch: the files it leaves.
JsonInitFiles(fs, project_name, now) ==
    IF JsonLoad(fs, project_name) = None
    THEN JsonSave(fs, project_name, _default_state(project_name, now))
    ELSE fs

\* Mutant of JsonStartedAt: started_at is rewritten by every running update.
JsonStartedAtEveryRun(step, status, now) ==
    IF Truthy(status) /\ status[1] = "running"
    THEN Some(now) ELSE step.started_at

\* update_step, json branch, "if status:" block: the step's new started_at.
JsonStartedAt(step, status, now) ==
    IF Truthy(status) /\ status[1] = "running" /\ step.started_at = None
    THEN Some(now) ELSE step.started_at

\* update_step, json branch, "if status:" block: the step's new finished_at.
JsonFinishedAt(step, status, now) ==
    IF Truthy(status) /\ status[1] \in TerminalStatuses
    THEN Some(now) ELSE step.finished_at

\* Mutant of JsonStatusHistory: the entry is put in front of the list.
JsonStatusHistoryInFront(history, step_key, prev, status, now) ==
    IF Truthy(status)
    THEN <<[time |-> now, event |-> StepEvent(step_key, status[1]),
            meta |-> PrevMeta(prev)]>> \o history
    ELSE history

\* update_step, json branch, "if status:" block: the history entry it appends.
JsonStatusHistory(history, step_key, prev, status, now) ==
    IF Truthy(status)
    THEN Append(history, [time |-> now, event |-> StepEvent(step_key, status[1]),
                          meta |-> PrevMeta(prev)])
    ELSE history

\* update_step, json branch, "if status:" block applied to the step.
JsonApplyStatus(step, status, now) ==
    [step EXCEPT !.status = IF Truthy(status) THEN status[1] ELSE @,
                 !.started_at = JsonStartedAt(step, status, now),
                 !.finished_at = JsonFinishedAt(step, status, now)]

\* "if outputs:" is true of a non-empty dict only.
HasOutputs(outputs) == outputs # None /\ DOMAIN outputs[1] # {}

\* Mutant of JsonMirror: an empty value is mirrored too.
JsonMirrorEmptyToo(arts, outputs) ==
    IF HasOutputs(outputs)
    THEN LET set == {k \in ARTIFACT_KEYS : k \in DOMAIN outputs[1]}
         IN [k \in DOMAIN arts \cup set |->
                IF k \in set THEN Some(outputs[1][k]) ELSE arts[k]]
    ELSE arts

\* update_step, json branch, "if outputs:" block: the mirrored artifact pointers.
JsonMirror(arts, outputs) ==
    IF HasOutputs(outputs)
    THEN LET set == {k \in ARTIFACT_KEYS : k \in DOMAIN outputs[1] /\ outputs[1][k] # ""}
         IN [k \in DOMAIN arts \cup set |->
                IF k \in set THEN Some(outputs[1][k]) ELSE arts[k]]
    ELSE arts

\* Mutant of JsonApplyOutputs: the outputs of the call replace those stored.
JsonOutputsReplaced(step, outputs) ==
    IF HasOutputs(outputs)
    THEN [step EXCEPT !.outputs = outputs[1]]
    ELSE step

\* update_step, json branch, "if outputs:" block applied to the step.
JsonApplyOutputs(step, outputs) ==
    IF HasOutputs(outputs)
    THEN [step EXCEPT !.outputs = DictUpdate(@, outputs[1])]
    ELSE step

\* Mutant of JsonApplyError: a step that already succeeded keeps its status.
JsonApplyErrorKeepSuccess(step, status, error, now) ==
    IF error # None
    THEN [step EXCEPT !.error = error,
                      !.status = IF status = None /\ @ # "success" THEN "failed" ELSE @,
                      !.finished_at = IF status = None THEN Some(now) ELSE @]
    ELSE step

\* update_step, json branch, "if error is not None:" block applied to the step.
JsonApplyError(step, status, error, now) ==
    IF error # None
    THEN [step EXCEPT !.error = error,
                      !.status = IF status = None THEN "failed" ELSE @,
                      !.finished_at = IF status = None THEN Some(now) ELSE @]
    ELSE step

\* update_step, json branch, "if error is not None:" block: the history entry.
JsonErrorHistory(history, step_key, error, now) ==
    IF error # None
    THEN Append(history, [time |-> now, event |-> StepEvent(step_key, "error"),
                          meta |-> ErrorMeta(Truncate(error[1], ERROR_LIMIT))])
    ELSE history

\* Mutant of JsonUpdateState: a step key the state does not have is not
\* registered; only updated_at is written.
JsonUpdateKnownOnly(state, step_key, status, outputs, error, now) ==
    IF step_key \notin DOMAIN state.steps THEN [state EXCEPT !.updated_at = now]
    ELSE LET step  == state.steps[step_key]
             step3 == JsonApplyError(
                          JsonApplyOutputs(JsonApplyStatus(step, status, now), outputs),
                          status, error, now)
             hist  == JsonErrorHistory(
                          JsonStatusHistory(state.history, step_key, step.status, status, now),
                          step_key, error, now)
         IN [state EXCEPT !.steps = [@ EXCEPT ![step_key] = step3],
                          !.artifacts = JsonMirror(@, outputs),
                          !.history = hist,
                          !.updated_at = now]

\* update_step, json branch: the state it saves and returns.
JsonUpdateState(state, step_key, status, outputs, error, now) ==
    LET steps == IF step_key \in DOMAIN state.steps THEN state.steps
                 ELSE (step_key :> DefaultStep) @@ state.steps
        step  == steps[step_key]
        step3 == JsonApplyError(
                     JsonApplyOutputs(JsonApplyStatus(step, status, now), outputs),
                     status, error, now)
        hist  == JsonErrorHistory(
                     JsonStatusHistory(state.history, step_key, step.status, status, now),
                     step_key, error, now)
    IN [state EXCEPT !.steps = [steps EXCEPT ![step_key] = step3],
                     !.artifacts = JsonMirror(@, outputs),
                     !.history = hist,
                     !.updated_at = now]

\* ------------------------------------------------------ relational backend

\* The database right after _sqlite_init(): the four tables, empty.
EmptyDb ==
    [projects |-> EmptyDict, steps |-> EmptyDict, artifacts |-> EmptyDict,
     history |-> << >>]

\* Mutant of _sqlite_init_project: INSERT OR REPLACE instead of INSERT OR IGNORE.
SqliteInitProjectReplace(d, project, now) ==
    [d EXCEPT
        !.projects = (project :> [created_at |-> now, updated_at |-> now]) @@ @,
        !.artifacts = (project :> [a \in ARTIFACT_KEYS |-> None]) @@ @,
        !.steps = [pk \in {<<project, s>> : s \in CanonicalSteps} |-> DefaultStep] @@ @]

\* _sqlite_init_project: INSERT OR IGNORE of the project row, the artifacts row
\* and one row per canonical step.
_sqlite_init_project(d, project, now) ==
    [d EXCEPT
        !.projects = IF project \in DOMAIN @ THEN @
                     ELSE (project :> [created_at |-> now, updated_at |-> now]) @@ @,
        !.artifacts = IF project \in DOMAIN @ THEN @
                      ELSE (project :> [a \in ARTIFACT_KEYS |-> None]) @@ @,
        !.steps = @ @@ [pk \in {<<project, s>> : s \in CanonicalSteps} |-> DefaultStep]]

\* _sqlite_update_project_ts: UPDATE projects SET updated_at WHERE project.
_sqlite_update_project_ts(d, project, now) ==
    [d EXCEPT !.projects =
        [p \in DOMAIN @ |-> IF p = project THEN [@[p] EXCEPT !.updated_at = now] ELSE @[p]]]

\* Mutant of SqlStartedAt: new_started is taken anew by every running update.
SqlStartedAtEveryRun(row, status, now) ==
    IF Truthy(status) /\ status[1] = "running"
    THEN Some(now) ELSE row.started_at

\* _sqlite_update_step, "if status:" block: new_started.
SqlStartedAt(row, status, now) ==
    IF Truthy(status) /\ status[1] = "running" /\ row.started_at = None
    THEN Some(now) ELSE row.started_at

\* Mutant of SqlFinishedAt: finished_at is set once, like started_at.
SqlFinishedAtOnce(row, status, now) ==
    IF Truthy(status) /\ status[1] \in TerminalStatuses /\ row.finished_at = None
    THEN Some(now) ELSE row.finished_at

\* _sqlite_update_step, "if status:" block: new_finished.
SqlFinishedAt(row, status, now) ==
    IF Truthy(status) /\ status[1] \in TerminalStatuses
    THEN Some(now) ELSE row.finished_at

\* Mutant of SqlStatusHistory: prev is read after the status was assigned.
SqlStatusHistoryNewPrev(history, project, step_key, curr_status, status, now) ==
    IF Truthy(status)
    THEN Append(history, [project |-> project, time |-> now,
                          event |-> StepEvent(step_key, status[1]),
                          meta |-> PrevMeta(status[1])])
    ELSE history

\* _sqlite_update_step, "if status:" block: the INSERT INTO history.
SqlStatusHistory(history, project, step_key, curr_status, status, now) ==
    IF Truthy(status)
    THEN Append(history, [project |-> project, time |-> now,
                          event |-> StepEvent(step_key, status[1]),
                          meta |-> PrevMeta(curr_status)])
    ELSE history

\* _sqlite_update_step, "if status:" block applied to the row values.
SqlApplyStatus(row, status, now) ==
    [row EXCEPT !.status = IF Truthy(status) THEN status[1] ELSE @,
                !.started_at = SqlStartedAt(row, status, now),
                !.finished_at = SqlFinishedAt(row, status, now)]

\* Mutant of SqlMirror: video_file is missing from the mirrored keys.
SqlMirrorNoVideo(artifacts, project, outputs) ==
    IF HasOutputs(outputs)
    THEN LET arts_updates ==
                 {k \in ARTIFACT_KEYS \ {"video_file"} :
                     k \in DOMAIN outputs[1] /\ outputs[1][k] # ""}
         IN [p \in DOMAIN artifacts |->
                IF p = project
                THEN [k \in ARTIFACT_KEYS |->
                         IF k \in arts_updates THEN Some(outputs[1][k])
                         ELSE artifacts[p][k]]
                ELSE artifacts[p]]
    ELSE artifacts

\* _sqlite_update_step, "if outputs:" block: UPDATE artifacts SET the recognized,
\* non-empty keys of outputs WHERE project.
SqlMirror(artifacts, project, outputs) ==
    IF HasOutputs(outputs)
    THEN LET arts_updates ==
                 {k \in ARTIFACT_KEYS : k \in DOMAIN outputs[1] /\ outputs[1][k] # ""}
         IN [p \in DOMAIN artifacts |->
                IF p = project
                THEN [k \in ARTIFACT_KEYS |->
                         IF k \in arts_updates THEN Some(outputs[1][k])
                         ELSE artifacts[p][k]]
                ELSE artifacts[p]]
    ELSE artifacts

\* _sqlite_update_step, "if outputs:" block: outputs_json.update(outputs).
SqlApplyOutputs(row, outputs) ==
    IF HasOutputs(outputs)
    THEN [row EXCEPT !.outputs = DictUpdate(@, outputs[1])]
    ELSE row

\* Mutant of SqlApplyError: finished_at is set only if the step is not terminal yet.
SqlApplyErrorIfNotTerminal(row, status, error, now) ==
    IF error # None
    THEN [row EXCEPT !.error = error,
                     !.status = IF ~Truthy(status) THEN "failed" ELSE @,
                     !.finished_at = IF ~Truthy(status) /\ row.status \notin TerminalStatuses
                                     THEN Some(now) ELSE @]
    ELSE row

\* _sqlite_update_step, "if error is not None:" block applied to the row values.
SqlApplyError(row, status, error, now) ==
    IF error # None
    THEN [row EXCEPT !.error = error,
                     !.status = IF ~Truthy(status) THEN "failed" ELSE @,
                     !.finished_at = IF ~Truthy(status) THEN Some(now) ELSE @]
    ELSE row

\* _sqlite_update_step, "if error is not None:" block: the INSERT INTO history.
SqlErrorHistory(history, project, step_key, error, now) ==
    IF error # None
    THEN Append(history, [project |-> project, time |-> now,
                          event |-> StepEvent(step_key, "error"),
                          meta |-> ErrorMeta(Truncate(error[1], ERROR_LIMIT))])
    ELSE history

\* _sqlite_update_step: seed the project, read the row (inserting the default row
\* of an unknown step), write history, artifacts, the row and the project's
\* updated_at.
_sqlite_update_step(d, project, step_key, status, outputs, error, now) ==
    LET d1   == _sqlite_init_project(d, project, now)
        pk   == <<project, step_key>>
        row  == IF pk \in DOMAIN d1.steps THEN d1.steps[pk] ELSE DefaultStep
        new  == SqlApplyError(
                    SqlApplyOutputs(SqlApplyStatus(row, status, now), outputs),
                    status, error, now)
        hist == SqlErrorHistory(
                    SqlStatusHistory(d1.history, project, step_key, row.status, status, now),
                    project, step_key, error, now)
        d2   == [d1 EXCEPT !.steps = (pk :> new) @@ @,
                           !.artifacts = SqlMirror(@, project, outputs),
                           !.history = hist]
    IN _sqlite_update_project_ts(d2, project, now)

\* _sqlite_list_projects: SELECT project FROM projects.
_sqlite_list_projects(d) == DOMAIN d.projects

\* _sqlite_load_project: None without a project row; else the state assembled
\* from the rows, canonical steps added, and an empty history.
_sqlite_load_project(d, project) ==
    IF project \notin DOMAIN d.projects THEN None
    ELSE LET keys == {pk[2] : pk \in {q \in DOMAIN d.steps : q[1] = project}}
         IN Some([project |-> project,
                  created_at |-> d.projects[project].created_at,
                  updated_at |-> d.projects[project].updated_at,
                  steps |-> [k \in keys \cup CanonicalSteps |->
                                IF k \in keys THEN d.steps[<<project, k>>]
                                ELSE DefaultStep],
                  artifacts |-> [a \in ARTIFACT_KEYS |->
                                    IF project \in DOMAIN d.artifacts
                                    THEN d.artifacts[project][a] ELSE None],
                  history |-> << >>])

\* Mutant of _sqlite_delete_project: the DELETE FROM projects is missing.
SqliteDeleteKeepsProject(d, project) ==
    [projects |-> d.projects,
     steps |-> [pk \in {q \in DOMAIN d.steps : q[1] # project} |-> d.steps[pk]],
     artifacts |-> [p \in DOMAIN d.artifacts \ {project} |-> d.artifacts[p]],
     history |-> SelectSeq(d.history, LAMBDA h : h.project # project)]

\* _sqlite_delete_project: DELETE the project's rows from the four tables.
_sqlite_delete_project(d, project) ==
    [projects |-> [p \in DOMAIN d.projects \ {project} |-> d.projects[p]],
     steps |-> [pk \in {q \in DOMAIN d.steps : q[1] # project} |-> d.steps[pk]],
     artifacts |-> [p \in DOMAIN d.artifacts \ {project} |-> d.artifacts[p]],
     history |-> SelectSeq(d.history, LAMBDA h : h.project # project)]

\* _sqlite_upsert_full: nothing without a project field; else seed the project,
\* overwrite the four artifact columns and upsert every step of the state.
_sqlite_upsert_full(d, state, now) ==
    IF state.project = << >> THEN d
    ELSE LET project == state.project
             d1 == _sqlite_init_project(d, project, now)
             d2 == [d1 EXCEPT
                       !.artifacts = [p \in DOMAIN @ |->
                            IF p = project
                            THEN [a \in ARTIFACT_KEYS |-> Get(state.artifacts, a)]
                            ELSE @[p]],
                       !.steps = [pk \in {<<project, k>> : k \in DOMAIN state.steps} |->
                                     state.steps[pk[2]]] @@ @]
         IN _sqlite_update_project_ts(d2, project, now)

\* -------------------------------------------------------------- migration

\* The orders in which os.listdir may yield the files of a set.
Orders(S) ==
    {o \in [1..Cardinality(S) -> S] : \A i, j \in 1..Cardinality(S) : o[i] = o[j] => i = j}

\* What a "*.json" file of PROJECTS_DIR may hold besides a state document: text
\* that json.load rejects, and JSON that is not an object.
Unparsable == [unparsable |-> "{"]
JsonArray == [array |-> << >>]

\* json.load(f) returns; isinstance(state, dict); state.get("project") is truthy.
Parses(content) == "unparsable" \notin DOMAIN content
IsDict(content) == "project" \in DOMAIN content
CarriesProject(content) == Parses(content) /\ IsDict(content) /\ content.project # << >>

\* migrate_json_states_to_sqlite, the loop body on the database: a document
\* with a project field is upserted; any other file leaves the database alone.
MigrateFileDb(d, content, now) ==
    IF CarriesProject(content) THEN _sqlite_upsert_full(d, content, now) ELSE d

\* Mutant of MigrateFile: the first file that fails ends the batch.
MigrateFileStopsAtError(summary, file, content) ==
    IF summary.errors # << >> THEN summary
    ELSE IF ~Parses(content) THEN [summary EXCEPT !.errors = Append(@, [file |-> file])]
    ELSE IF IsDict(content) /\ content.project # << >>
         THEN [summary EXCEPT !.migrated = @ + 1]
         ELSE [summary EXCEPT !.skipped = @ + 1]

\* migrate_json_states_to_sqlite, the loop body on the counters: the exception
\* of json.load is caught and recorded; a dict with a project counts as
\* migrated, any other parsed value as skipped.
MigrateFile(summary, file, content) ==
    IF ~Parses(content) THEN [summary EXCEPT !.errors = Append(@, [file |-> file])]
    ELSE IF IsDict(content) /\ content.project # << >>
         THEN [summary EXCEPT !.migrated = @ + 1]
         ELSE [summary EXCEPT !.skipped = @ + 1]

\* migrate_json_states_to_sqlite, the loop: the database after the files of
\* order from position i on.
RECURSIVE MigrateFrom(_, _, _, _, _)
MigrateFrom(d, fs, order, i, now) ==
    IF i > Len(order) THEN d
    ELSE MigrateFrom(MigrateFileDb(d, fs[order[i]], now), fs, order, i + 1, now)

\* migrate_json_states_to_sqlite, the loop: the counters after the files of
\* order from position i on.
RECURSIVE MigrateCount(_, _, _, _)
MigrateCount(summary, fs, order, i) ==
    IF i > Len(order) THEN summary
    ELSE MigrateCount(MigrateFile(summary, order[i], fs[order[i]]), fs, order, i + 1)

\* migrate_json_states_to_sqlite: the summary it returns.
MigrateSummary(fs, order) ==
    MigrateCount([migrated |-> 0, skipped |-> 0, errors |-> << >>], fs, order, 1)

\* ------------------------------------------------------------------ inputs

Projects == { <<"a", " ", "b">>, <<"a", "_", "b">> }

StepKeys == {"narrative_deconstructed", "custom_step"}

\* The projects update_step is called on.
UpdateProjects == { <<"a", " ", "b">> }

StatusArgs == {None, Some("running"), Some("success"), Some("failed")}

OutputsSchema == Some(("schema_file" :> "s.json") @@ ("images_dir" :> "img"))
OutputsVideo == Some(("schema_file" :> "") @@ ("video_file" :> "v.mp4"))
OutputsArgs == {None, OutputsSchema, OutputsVideo}

ErrorBoom == Some([text |-> "boom", len |-> 4])

\* A message one character longer than error[:500] keeps.
ErrorLong == Some([text |-> "traceback", len |-> ERROR_LIMIT + 1])

\* The <<status, outputs, error>> argument triples of update_step: a status
\* alone, failed with an error, an error alone, outputs alone, and success with
\* outputs.
UpdateArgs ==
    {<<s, None, None>> : s \in StatusArgs \ {None}}
        \cup {<<Some("failed"), None, ErrorBoom>>, <<None, None, ErrorBoom>>}
        \cup {<<None, o, None>> : o \in OutputsArgs \ {None}}
        \cup {<<Some("success"), OutputsSchema, None>>}

\* The triples used next to full-state saves: those that write outputs, a
\* failure, and an error alone with a long message.
SaveUpdateArgs ==
    {<<None, o, None>> : o \in OutputsArgs \ {None}}
        \cup {<<Some("success"), OutputsSchema, None>>,
              <<Some("failed"), None, ErrorBoom>>,
              <<None, None, ErrorLong>>}

\* Full documents a caller may hand to save_project or to the import.
DocWithSchema(project) ==
    [project |-> project, created_at |-> clock, updated_at |-> clock,
     steps |-> ("narrative_deconstructed" :>
                   [status |-> "success", started_at |-> Some(clock),
                    finished_at |-> Some(clock), error |-> None,
                    outputs |-> ("schema_file" :> "u.json")]),
     artifacts |-> ("schema_file" :> Some("u.json")),
     history |-> << >>]

DocBare(project) ==
    [project |-> project, created_at |-> clock, updated_at |-> clock,
     steps |-> EmptyDict, artifacts |-> EmptyDict, history |-> << >>]

SaveDocs == {DocWithSchema(<<"a", " ", "b">>), DocBare(<<"a", " ", "b">>), DocBare(<< >>)}

\* ----------------------------------------------------------------- actions

\* No task has been dispatched.
NoJob == [kind |-> "none"]

\* No store call is in progress on a worker.
NoWorkers == << >>

Called(op, project, step_key, status, outputs, error, data, now) ==
    [op |-> op, project |-> project, step_key |-> step_key, status |-> status,
     outputs |-> outputs, error |-> error, data |-> data, now |-> now]

\* An exception that leaves the call, where a returned value would be.
Raises(exception) == <<"raised", exception>>

\* load_project, json branch: the file exists and json.load rejects its content.
JsonCorrupt(fs, project_name) ==
    LET path == get_project_path(project_name)
    IN path \in DOMAIN fs /\ ~Parses(fs[path])

\* load_project under the process's backend.
Loaded(project_name) ==
    IF backend = "sqlite" THEN _sqlite_load_project(db, project_name)
    ELSE JsonLoad(files, project_name)

\* list_projects under the process's backend.
Listed ==
    IF backend = "sqlite" THEN _sqlite_list_projects(db) ELSE JsonList(files)

Init ==
    /\ backend \in {"json", "sqlite"}
    /\ files = EmptyDict
    /\ db = EmptyDb
    /\ clock = 1
    /\ call = Called("start", << >>, "", None, None, None, None, 1)
    /\ ret = None
    /\ listed = {}
    /\ prior = [files |-> EmptyDict, db |-> EmptyDb]
    /\ nops = 0
    /\ job = NoJob
    /\ workers = NoWorkers
    /\ tmp = EmptyDict

Step(c, now) ==
    /\ nops < MaxOps
    /\ nops' = nops + 1
    /\ clock' = now
    /\ call' = c
    /\ backend' = backend
    /\ prior' = [files |-> files, db |-> db]
    /\ job' = job
    /\ UNCHANGED <<workers, tmp>>

\* init_project on the stores of the process's backend, and what it returns.
InitProjectEffect(project_name, now) ==
    IF backend = "sqlite"
       THEN LET d1 == _sqlite_init_project(db, project_name, now)
                st == _sqlite_load_project(d1, project_name)
            IN /\ db' = d1
               /\ files' = files
               /\ ret' = IF st # None THEN st
                         ELSE Some(_default_state(project_name, now))
       ELSE IF JsonCorrupt(files, project_name)
       THEN /\ UNCHANGED <<files, db>>
            /\ ret' = Raises("JSONDecodeError")
       ELSE /\ files' = JsonInitFiles(files, project_name, now)
            /\ db' = db
            /\ ret' = Some(JsonInitState(files, project_name, now))

init_project(project_name, now) ==
    /\ Step(Called("init", project_name, "", None, None, None, None, now), now)
    /\ InitProjectEffect(project_name, now)
    /\ listed' = listed

\* update_step on the stores of the process's backend, and what it returns.
UpdateStepEffect(project_name, step_key, status, outputs, error, now) ==
    IF backend = "sqlite"
       THEN LET d1 == _sqlite_update_step(db, project_name, step_key, status,
                                          outputs, error, now)
                st == _sqlite_load_project(d1, project_name)
            IN /\ db' = d1
               /\ files' = files
               /\ ret' = IF st # None THEN st
                         ELSE Some(_default_state(project_name, now))
       ELSE IF JsonCorrupt(files, project_name)
       THEN /\ UNCHANGED <<files, db>>
            /\ ret' = Raises("JSONDecodeError")
       ELSE LET state == JsonUpdateState(JsonInitState(files, project_name, now),
                                         step_key, status, outputs, error, now)
            IN /\ files' = JsonSave(JsonInitFiles(files, project_name, now),
                                    project_name, state)
               /\ db' = db
               /\ ret' = Some(state)

update_step(project_name, step_key, status, outputs, error, now) ==
    /\ Step(Called("update", project_name, step_key, status, outputs, error, None, now), now)
    /\ UpdateStepEffect(project_name, step_key, status, outputs, error, now)
    /\ listed' = listed

\* Mutant of load_project: a load that seeds a missing project as init does.
LoadProjectSeeds(project_name) ==
    /\ Step(Called("load", project_name, "", None, None, None, None, clock), clock)
    /\ ret' = Loaded(project_name)
    /\ files' = IF backend = "json" THEN JsonInitFiles(files, project_name, clock) ELSE files
    /\ db' = IF backend = "sqlite" THEN _sqlite_init_project(db, project_name, clock) ELSE db
    /\ listed' = listed

\* Mutant of load_project: a document that does not parse is taken for none.
LoadProjectCorruptIsAbsent(project_name) ==
    /\ Step(Called("load", project_name, "", None, None, None, None, clock), clock)
    /\ ret' = IF backend = "json" /\ JsonCorrupt(files, project_name) THEN None
              ELSE Loaded(project_name)
    /\ UNCHANGED <<files, db, listed>>

load_project(project_name) ==
    /\ Step(Called("load", project_name, "", None, None, None, None, clock), clock)
    /\ ret' = IF backend = "json" /\ JsonCorrupt(files, project_name)
              THEN Raises("JSONDecodeError")
              ELSE Loaded(project_name)
    /\ UNCHANGED <<files, db, listed>>

list_projects ==
    /\ Step(Called("list", << >>, "", None, None, None, None, clock), clock)
    /\ listed' = Listed
    /\ ret' = None
    /\ UNCHANGED <<files, db>>

delete_project(project_name) ==
    /\ Step(Called("delete", project_name, "", None, None, None, None, clock), clock)
    /\ IF backend = "sqlite"
       THEN /\ db' = _sqlite_delete_project(db, project_name)
            /\ files' = files
       ELSE /\ files' = JsonDelete(files, project_name)
            /\ db' = db
    /\ ret' = None
    /\ listed' = listed

save_project(project_name, project_data, now) ==
    /\ Step(Called("save", project_name, "", None, None, None, Some(project_data), now), now)
    /\ IF backend = "sqlite"
       THEN /\ db' = _sqlite_upsert_full(db, project_data, now)
            /\ files' = files
       ELSE /\ files' = JsonSave(files, project_name, project_data)
            /\ db' = db
    /\ ret' = None
    /\ listed' = listed

import_json_state_to_sqlite(state, now) ==
    /\ Step(Called("import", << >>, "", None, None, None, Some(state), now), now)
    /\ db' = _sqlite_upsert_full(db, state, now)
    /\ ret' = None
    /\ UNCHANGED <<files, listed>>

migrate_json_states_to_sqlite(order, now) ==
    /\ Step(Called("migrate", << >>, "", None, None, None, None, now), now)
    /\ db' = MigrateFrom(db, files, order, 1, now)
    /\ ret' = Some(MigrateSummary(files, order))
    /\ UNCHANGED <<files, listed>>

\* The store contract: init, updateStep, load, list, delete.
\* The second a call may read from the clock: the last one read, or the next.
Seconds == {clock, clock + 1} \cap 1..MaxClock

Next ==
    \/ \E now \in Seconds, p \in Projects : init_project(p, now)
    \/ \E now \in Seconds, p \in UpdateProjects, k \in StepKeys, a \in UpdateArgs :
          update_step(p, k, a[1], a[2], a[3], now)
    \/ \E p \in Projects : load_project(p)
    \/ list_projects
    \/ \E p \in Projects : delete_project(p)

Spec == Init /\ [][Next]_vars

\* The store contract plus full-state save, single-document import and bulk
\* migration.
NextSave ==
    \/ \E now \in Seconds, p \in Projects : init_project(p, now)
    \/ \E now \in Seconds, p \in UpdateProjects, k \in StepKeys, a \in SaveUpdateArgs :
          update_step(p, k, a[1], a[2], a[3], now)
    \/ \E p \in Projects : delete_project(p)
    \/ \E p \in Projects, data \in SaveDocs : save_project(p, data, clock)
    \/ \E data \in SaveDocs : import_json_state_to_sqlite(data, clock)
    \/ \E order \in Orders(DOMAIN files) : migrate_json_states_to_sqlite(order, clock)

SpecSave == Init /\ [][NextSave]_vars

\* init and update_step alone, next to a second project "c" that is in the
\* store from the start with a finished step, outputs and a pointer.
FrameProjects == { <<"a", " ", "b">>, <<"c">> }

\* The triples of update_step used here: outputs alone (two dicts that share a
\* key) and an error alone.
FrameArgs ==
    {<<None, o, None>> : o \in OutputsArgs \ {None}} \cup {<<None, None, ErrorBoom>>}

FrameStores ==
    [files |-> JsonSave(EmptyDict, <<"c">>,
                        JsonUpdateState(_default_state(<<"c">>, 1),
                                        "narrative_deconstructed", Some("success"),
                                        OutputsSchema, None, 1)),
     db |-> _sqlite_update_step(EmptyDb, <<"c">>, "narrative_deconstructed",
                                Some("success"), OutputsSchema, None, 1)]

InitFrame ==
    /\ backend \in {"json", "sqlite"}
    /\ files = (IF backend = "json" THEN FrameStores.files ELSE EmptyDict)
    /\ db = (IF backend = "sqlite" THEN FrameStores.db ELSE EmptyDb)
    /\ clock = 1
    /\ call = Called("start", << >>, "", None, None, None, None, 1)
    /\ ret = None
    /\ listed = {}
    /\ prior = [files |-> files, db |-> db]
    /\ nops = 0
    /\ job = NoJob
    /\ workers = NoWorkers
    /\ tmp = EmptyDict

NextFrame ==
    \/ \E now \in Seconds, p \in FrameProjects : init_project(p, now)
    \/ \E now \in Seconds, p \in FrameProjects, k \in StepKeys, a \in FrameArgs :
          update_step(p, k, a[1], a[2], a[3], now)

SpecFrame == InitFrame /\ [][NextFrame]_vars

\* The store contract on a directory in which the file of a project holds text
\* that json.load rejects, next to the file of a sound project or alone.
CorruptDirectories ==
    { (<<"a", "_", "b">> :> Unparsable),
      (<<"a", "_", "b">> :> Unparsable) @@ (<<"c">> :> _default_state(<<"c">>, 1)),
      (<<"a", "_", "b">> :> _default_state(<<"a", " ", "b">>, 1))
          @@ (<<"c">> :> Unparsable) }

CorruptProjects == { <<"a", " ", "b">>, <<"c">> }

InitCorrupt ==
    /\ backend = "json"
    /\ files \in CorruptDirectories
    /\ db = EmptyDb
    /\ clock = 1
    /\ call = Called("start", << >>, "", None, None, None, None, 1)
    /\ ret = None
    /\ listed = {}
    /\ prior = [files |-> files, db |-> EmptyDb]
    /\ nops = 0
    /\ job = NoJob
    /\ workers = NoWorkers
    /\ tmp = EmptyDict

NextCorrupt ==
    \/ \E now \in Seconds, p \in CorruptProjects : init_project(p, now)
    \/ \E now \in Seconds, p \in CorruptProjects, k \in StepKeys, a \in SaveUpdateArgs :
          update_step(p, k, a[1], a[2], a[3], now)
    \/ \E p \in CorruptProjects : load_project(p)
    \/ list_projects
    \/ \E p \in CorruptProjects : delete_project(p)

SpecCorrupt == InitCorrupt /\ [][NextCorrupt]_vars

\* ---------------------------------------------------- the two backends
\* One process per backend, both handed the same calls: the json process works
\* on files, the sqlite process on db.

InitBoth ==
    /\ backend = "both"
    /\ files = EmptyDict
    /\ db = EmptyDb
    /\ clock = 1
    /\ call = Called("start", << >>, "", None, None, None, None, 1)
    /\ ret = None
    /\ listed = {}
    /\ prior = [files |-> EmptyDict, db |-> EmptyDb]
    /\ nops = 0
    /\ job = NoJob
    /\ workers = NoWorkers
    /\ tmp = EmptyDict

both_init_project(project_name, now) ==
    /\ Step(Called("init", project_name, "", None, None, None, None, now), now)
    /\ files' = JsonInitFiles(files, project_name, now)
    /\ db' = _sqlite_init_project(db, project_name, now)
    /\ ret' = Some(JsonInitState(files, project_name, now))
    /\ listed' = listed

both_update_step(project_name, step_key, status, outputs, error, now) ==
    /\ Step(Called("update", project_name, step_key, status, outputs, error, None, now), now)
    /\ LET state == JsonUpdateState(JsonInitState(files, project_name, now),
                                    step_key, status, outputs, error, now)
       IN /\ files' = JsonSave(JsonInitFiles(files, project_name, now), project_name, state)
          /\ ret' = Some(state)
    /\ db' = _sqlite_update_step(db, project_name, step_key, status, outputs, error, now)
    /\ listed' = listed

both_delete_project(project_name) ==
    /\ Step(Called("delete", project_name, "", None, None, None, None, clock), clock)
    /\ files' = JsonDelete(files, project_name)
    /\ db' = _sqlite_delete_project(db, project_name)
    /\ ret' = None
    /\ listed' = listed

NextBoth ==
    \/ \E now \in Seconds, p \in Projects : both_init_project(p, now)
    \/ \E now \in Seconds, p \in UpdateProjects, k \in StepKeys, a \in UpdateArgs :
          both_update_step(p, k, a[1], a[2], a[3], now)
    \/ \E p \in Projects : both_delete_project(p)

SpecBoth == InitBoth /\ [][NextBoth]_vars

\* ------------------------------------------------------ bulk migration
\* A directory left by processes of the document backend and by other writers,
\* migrated and then read by a process of the relational backend.

MigrateStems == { <<"p">>, <<"q">>, <<"r">>, <<"s">> }

\* What the file of a stem may hold: the document of the project of that name,
\* a dict without a project, JSON that is not a dict, or text that does not parse.
FileContents(stem) == {DocWithSchema(stem), DocBare(<< >>), JsonArray, Unparsable}

Directories ==
    UNION {{dir \in [S -> UNION {FileContents(f) : f \in S}] :
               \A f \in S : dir[f] \in FileContents(f)} : S \in SUBSET MigrateStems}

InitMigrate ==
    /\ backend = "sqlite"
    /\ clock = 1
    /\ files \in Directories
    /\ db = EmptyDb
    /\ call = Called("start", << >>, "", None, None, None, None, 1)
    /\ ret = None
    /\ listed = {}
    /\ prior = [files |-> files, db |-> EmptyDb]
    /\ nops = 0
    /\ job = NoJob
    /\ workers = NoWorkers
    /\ tmp = EmptyDict

NextMigrate ==
    \/ \E order \in Orders(DOMAIN files) : migrate_json_states_to_sqlite(order, clock)
    \/ list_projects
    \/ \E p \in MigrateStems : load_project(p)

SpecMigrate == InitMigrate /\ [][NextMigrate]_vars

\* ------------------------------------------------------------------- tasks
\* The celery tasks of tasks.py.  A task is its try block and its except block,
\* each a list of instructions; the worker executes one instruction per step.
\* The store is assumed to answer every call (the except blocks swallow an
\* exception of update_step; none is raised here).

\* The position of the last ch in a sequence of characters, 0 when there is none.
LastIndex(s, ch) ==
    LET at == {i \in DOMAIN s : s[i] = ch}
    IN IF at = {} THEN 0 ELSE CHOOSE i \in at : \A j \in at : j <= i

\* os.path.basename(path)
basename(path) == SubSeq(path, LastIndex(path, "/") + 1, Len(path))

\* os.path.splitext(name)[0]: the name without its last dot and what follows,
\* unless only dots precede that dot.
splitext_root(name) ==
    LET d == LastIndex(name, ".")
    IN IF d > 1 /\ \E i \in 1..(d - 1) : name[i] # "." THEN SubSeq(name, 1, d - 1)
       ELSE name

\* re.sub(suffix + "$", "", base)
StripSuffix(base, suffix) ==
    IF Len(base) >= Len(suffix)
       /\ SubSeq(base, Len(base) - Len(suffix) + 1, Len(base)) = suffix
    THEN SubSeq(base, 1, Len(base) - Len(suffix)) ELSE base

\* re.sub(r'[^a-zA-Z0-9_-]', '_', base)
Sanitize(base) == [i \in DOMAIN base |-> IF base[i] \in SafeChars THEN base[i] ELSE "_"]

derive_project_name_from_story_file(path) == Sanitize(splitext_root(basename(path)))

derive_project_name_from_schema_file(path) ==
    Sanitize(StripSuffix(splitext_root(basename(path)),
                         <<"_", "s", "c", "h", "e", "m", "a">>))

derive_project_name_from_storyboard_file(path) ==
    Sanitize(StripSuffix(splitext_root(basename(path)),
                         <<"_", "s", "t", "o", "r", "y", "b", "o", "a", "r", "d">>))

\* The files the tasks are dispatched with: "in/a b.txt", "a b_schema.json" and
\* "a b_storyboard.txt".
StoryFile == <<"i", "n", "/", "a", " ", "b", ".", "t", "x", "t">>
SchemaFile == <<"a", " ", "b", "_", "s", "c", "h", "e", "m", "a", ".", "j", "s", "o", "n">>
StoryboardFile ==
    <<"a", " ", "b", "_", "s", "t", "o", "r", "y", "b", "o", "a", "r", "d", ".", "t", "x", "t">>

\* The instructions of a task body.
Ins(op, key, status, out, err, arg) ==
    [op |-> op, key |-> key, status |-> status, out |-> out, err |-> err, arg |-> arg]

\* project, location = _require_env(project, location)
RequireEnv == Ins("require_env", "", "", "", "", "")
\* init_project(project_name)
InitProject == Ins("init_project", "", "", "", "", "")
\* update_step(project_name, key, status=status)
Update(key, status) == Ins("update_step", key, status, "", "", "")
\* update_step(project_name, key, status=status, outputs={out: <the local out>})
UpdateOut(key, status, out) == Ins("update_step", key, status, out, "", "")
\* update_step(project_name, key, status="failed", error=str(e))
UpdateFailed(key) == Ins("update_step", key, "failed", "", "exc", "")
\* if video_file: update_step(.., status="success", outputs={"video_file": ..})
\* else: update_step(.., status="failed", error="Video synthesis not implemented")
UpdateVideo == Ins("update_video", "video_synthesized", "", "video_file", "", "")
\* self.update_state(state=state, meta=..)
UpdateState(state) == Ins("update_state", "", "", "", "", state)
\* <locals> = fn(..): the call of an external collaborator
Collaborator(fn) == Ins("call", "", "", "", "", fn)
Return == Ins("return", "", "", "", "", "")
Raise == Ins("raise", "", "", "", "", "")

\* Mutant of deconstruct_narrative_task: the except block re-raises without
\* recording the failure.
DeconstructRaisesUnrecorded ==
    [name |-> "deconstruct_narrative_task",
     project_name |-> derive_project_name_from_story_file(StoryFile),
     max_retries |-> 3,
     try |-> << RequireEnv, InitProject,
                Update("narrative_deconstructed", "running"),
                UpdateState("STARTED"),
                Collaborator("deconstruct_narrative"),
                UpdateOut("narrative_deconstructed", "success", "schema_file"),
                Return >>,
     except |-> << UpdateState("FAILURE"), Raise >>]

deconstruct_narrative_task ==
    [name |-> "deconstruct_narrative_task",
     project_name |-> derive_project_name_from_story_file(StoryFile),
     max_retries |-> 3,
     try |-> << RequireEnv, InitProject,
                Update("narrative_deconstructed", "running"),
                UpdateState("STARTED"),
                Collaborator("deconstruct_narrative"),
                UpdateOut("narrative_deconstructed", "success", "schema_file"),
                Return >>,
     except |-> << UpdateFailed("narrative_deconstructed"),
                   UpdateState("FAILURE"), Raise >>]

generate_screenplay_and_storyboard_task ==
    [name |-> "generate_screenplay_and_storyboard_task",
     project_name |-> derive_project_name_from_schema_file(SchemaFile),
     max_retries |-> 3,
     try |-> << RequireEnv, InitProject,
                Update("screenplay_generated", "running"),
                Update("storyboard_generated", "running"),
                UpdateState("STARTED"),
                Collaborator("generate_screenplay_and_storyboard"),
                UpdateOut("screenplay_generated", "success", "screenplay_file"),
                UpdateOut("storyboard_generated", "success", "storyboard_file"),
                Return >>,
     except |-> << UpdateFailed("screenplay_generated"),
                   UpdateFailed("storyboard_generated"),
                   UpdateState("FAILURE"), Raise >>]

generate_visual_assets_task ==
    [name |-> "generate_visual_assets_task",
     project_name |-> derive_project_name_from_storyboard_file(StoryboardFile),
     max_retries |-> 3,
     try |-> << RequireEnv, InitProject,
                Update("visual_assets_generated", "running"),
                UpdateState("STARTED"),
                Collaborator("generate_visual_assets"),
                Update("visual_assets_generated", "success"),
                Return >>,
     except |-> << UpdateFailed("visual_assets_generated"),
                   UpdateState("FAILURE"), Raise >>]

full_pipeline_task ==
    [name |-> "full_pipeline_task",
     project_name |-> derive_project_name_from_story_file(StoryFile),
     max_retries |-> 1,
     try |-> << RequireEnv, InitProject,
                UpdateState("STARTED"),
                Update("narrative_deconstructed", "running"),
                Collaborator("deconstruct_narrative"),
                UpdateOut("narrative_deconstructed", "success", "schema_file"),
                UpdateState("STARTED"),
                Update("screenplay_generated", "running"),
                Update("storyboard_generated", "running"),
                Collaborator("generate_screenplay_and_storyboard"),
                UpdateOut("screenplay_generated", "success", "screenplay_file"),
                UpdateOut("storyboard_generated", "success", "storyboard_file"),
                UpdateState("STARTED"),
                Update("visual_assets_generated", "running"),
                Collaborator("generate_visual_assets"),
                Update("visual_assets_generated", "success"),
                UpdateState("STARTED"),
                Collaborator("synthesize_video_from_storyboard"),
                UpdateVideo,
                Return >>,
     except |-> << UpdateFailed("video_synthesized"),
                   UpdateState("FAILURE"), Raise >>]

StageTasks ==
    {deconstruct_narrative_task, generate_screenplay_and_storyboard_task,
     generate_visual_assets_task}

Tasks == StageTasks \cup {full_pipeline_task}

TaskOf(name) == CHOOSE t \in Tasks : t.name = name

\* _require_env without a project: ValueError("VERTEX_PROJECT_ID is required")
VertexProjectRequired == [text |-> "VERTEX_PROJECT_ID is required", len |-> 29]

\* An exception of a collaborator.
CollaboratorErrors == {ErrorBoom[1]}

\* "Video synthesis not implemented"
VideoNotImplemented == [text |-> "Video synthesis not implemented", len |-> 31]

\* What a collaborator may return, as the locals the task binds to it.
CollaboratorReturns(fn) ==
    CASE fn = "deconstruct_narrative" ->
             { ("schema_file" :> Some("a b_schema.json")) }
      [] fn = "generate_screenplay_and_storyboard" ->
             { ("screenplay_file" :> Some("a b_screenplay.txt"))
                   @@ ("storyboard_file" :> Some("a b_storyboard.txt")) }
      [] fn = "generate_visual_assets" -> { EmptyDict }
      [] fn = "synthesize_video_from_storyboard" ->
             { ("video_file" :> None), ("video_file" :> Some("combined_video.mp4")) }

\* A task as apply_async leaves it: queued, no attempt made.  configured tells
\* whether the project argument or VERTEX_PROJECT_ID is set.
Dispatched(task, configured) ==
    [kind |-> task.name, configured |-> configured,
     state |-> "PENDING", retries |-> 0, attempts |-> 0,
     block |-> "queue", pc |-> 0,
     locals |-> EmptyDict, exc |-> None, raised_by |-> "",
     calls |-> << >>, invoked |-> << >>]

JobTask == TaskOf(job.kind)

\* The instruction the worker is at.
Current ==
    IF job.kind # "none" /\ job.block \in {"try", "except"}
    THEN (IF job.block = "try" THEN JobTask.try ELSE JobTask.except)[job.pc]
    ELSE Ins("idle", "", "", "", "", "")

InitJobs ==
    /\ backend \in {"json", "sqlite"}
    /\ files = EmptyDict
    /\ db = EmptyDb
    /\ clock = 1
    /\ call = Called("start", << >>, "", None, None, None, None, 1)
    /\ ret = None
    /\ listed = {}
    /\ prior = [files |-> EmptyDict, db |-> EmptyDb]
    /\ nops = 0
    /\ job \in {Dispatched(t, c) : t \in Tasks, c \in BOOLEAN}
    /\ workers = NoWorkers
    /\ tmp = EmptyDict

\* A step of the task that calls the store.
StoreCall(c, now) ==
    /\ clock' = now
    /\ call' = c
    /\ prior' = [files |-> files, db |-> db]
    /\ UNCHANGED <<backend, listed, nops, workers, tmp>>

\* A step of the task that does not.
NoStoreCall ==
    UNCHANGED <<backend, files, db, clock, call, ret, listed, prior, nops, workers, tmp>>

\* The except clause: bind e and run the except block.
Except(j, msg, by) ==
    [j EXCEPT !.block = "except", !.pc = 1, !.exc = Some(msg), !.raised_by = by]

\* The worker takes the task from the queue and starts an attempt
\* (task_track_started: the state becomes STARTED).
job_start ==
    /\ job.kind # "none"
    /\ job.block = "queue"
    /\ job' = [job EXCEPT !.block = "try", !.pc = 1, !.state = "STARTED",
                          !.attempts = @ + 1, !.locals = EmptyDict,
                          !.exc = None, !.raised_by = "",
                          !.calls = << >>, !.invoked = << >>]
    /\ NoStoreCall

job_require_env ==
    /\ Current.op = "require_env"
    /\ job' = IF job.configured THEN [job EXCEPT !.pc = @ + 1]
              ELSE Except(job, VertexProjectRequired, "_require_env")
    /\ NoStoreCall

job_init_project(now) ==
    /\ Current.op = "init_project"
    /\ StoreCall(Called("init", JobTask.project_name, "", None, None, None, None, now), now)
    /\ InitProjectEffect(JobTask.project_name, now)
    /\ job' = [job EXCEPT !.pc = @ + 1]

\* The <<status, outputs, error>> an update instruction passes to update_step.
UpdateArgsOf(ins, locals, exc) ==
    IF ins.op = "update_video"
    THEN IF locals[ins.out] # None
         THEN <<Some("success"), Some(ins.out :> locals[ins.out][1]), None>>
         ELSE <<Some("failed"), None, Some(VideoNotImplemented)>>
    ELSE <<Some(ins.status),
           IF ins.out # "" THEN Some(ins.out :> locals[ins.out][1]) ELSE None,
           IF ins.err = "exc" THEN exc ELSE None>>

job_update_step(now) ==
    /\ Current.op \in {"update_step", "update_video"}
    /\ LET a == UpdateArgsOf(Current, job.locals, job.exc)
       IN /\ StoreCall(Called("update", JobTask.project_name, Current.key,
                              a[1], a[2], a[3], None, now), now)
          /\ UpdateStepEffect(JobTask.project_name, Current.key, a[1], a[2], a[3], now)
          /\ job' = [job EXCEPT !.pc = @ + 1,
                                !.calls = Append(@, <<Current.key, a[1], a[2], a[3]>>)]

job_update_state ==
    /\ Current.op = "update_state"
    /\ job' = [job EXCEPT !.pc = @ + 1, !.state = Current.arg]
    /\ NoStoreCall

job_collaborator_returns ==
    /\ Current.op = "call"
    /\ \E r \in CollaboratorReturns(Current.arg) :
           job' = [job EXCEPT !.pc = @ + 1, !.locals = r @@ @,
                              !.invoked = Append(@, Current.arg)]
    /\ NoStoreCall

job_collaborator_raises ==
    /\ Current.op = "call"
    /\ \E msg \in CollaboratorErrors :
           job' = Except([job EXCEPT !.invoked = Append(@, Current.arg)],
                         msg, Current.arg)
    /\ NoStoreCall

job_return ==
    /\ Current.op = "return"
    /\ job' = [job EXCEPT !.block = "done", !.pc = 0, !.state = "SUCCESS"]
    /\ NoStoreCall

\* Mutant of job_raise: one retry more than max_retries.
JobRaiseRetriesOnceMore ==
    /\ Current.op = "raise"
    /\ job' = IF job.retries <= JobTask.max_retries
              THEN [job EXCEPT !.block = "queue", !.pc = 0, !.state = "RETRY",
                               !.retries = @ + 1]
              ELSE [job EXCEPT !.block = "done", !.pc = 0, !.state = "FAILURE"]
    /\ NoStoreCall

\* The exception leaves the task; autoretry_for=(Exception,) retries it until
\* max_retries is used up.
job_raise ==
    /\ Current.op = "raise"
    /\ job' = IF job.retries < JobTask.max_retries
              THEN [job EXCEPT !.block = "queue", !.pc = 0, !.state = "RETRY",
                               !.retries = @ + 1]
              ELSE [job EXCEPT !.block = "done", !.pc = 0, !.state = "FAILURE"]
    /\ NoStoreCall

NextJobs ==
    \/ job_start
    \/ job_require_env
    \/ \E now \in Seconds : job_init_project(now)
    \/ \E now \in Seconds : job_update_step(now)
    \/ job_update_state
    \/ job_collaborator_returns
    \/ job_collaborator_raises
    \/ job_return
    \/ job_raise

SpecJobs == InitJobs /\ [][NextJobs]_vars

\* The worker runs the instructions of an attempt one after the other, a
\* collaborator called returns or raises, the store answers, and celery hands a
\* task put back for a retry to the worker again once its backoff has passed:
\* a step of the task that can be taken is taken.
SpecJobsFair == SpecJobs /\ WF_vars(NextJobs)

\* ------------------------------------------------------ concurrent workers
\* Two workers, each in one update_step call on the same project of the same
\* store, a statement at a time.  Under sqlite every connection is opened with
\* the sqlite3 module's defaults: a SELECT runs outside a transaction, the first
\* INSERT or UPDATE opens one that lasts until commit, and the database admits
\* one write transaction at a time, so the writes of a transaction take effect
\* together.  A writer waits for the other to commit (the 5 s busy timeout is
\* not reached by these transactions).  Under json a file has a content that
\* json.dump writes in two parts, each open file keeps its own offset, and
\* os.replace moves the file itself: a handle still open on it writes on.

WorkerProject == <<"a", " ", "b">>

WorkerStepKeys == {"narrative_deconstructed", "screenplay_generated", "custom_step"}

OutputsSchemaOnly == Some("schema_file" :> "s.json")
OutputsImagesAndSchema == Some(("images_dir" :> "img") @@ ("schema_file" :> "t.json"))

\* The <<status, outputs, error>> of the calls of the workers.
WorkerArgs ==
    { <<Some("running"), None, None>>,
      <<Some("success"), OutputsSchemaOnly, None>>,
      <<None, OutputsImagesAndSchema, None>>,
      <<None, None, ErrorBoom>> }

\* A file whose content is not one whole serialization: what its first and its
\* second part hold, None for a part not written.
Torn(head, tail) == [torn |-> <<head, tail>>]

\* A file just created or truncated by open(.., "w").
EmptyFile == Torn(None, None)

\* The two parts of a content.
Parts(content) ==
    IF "torn" \in DOMAIN content THEN content.torn
    ELSE <<Some(content), Some(content)>>

\* The content made of two parts: a document when both are of the same
\* serialization.
Content(head, tail) ==
    IF head # None /\ head = tail THEN head[1] ELSE Torn(head, tail)

\* f.write of part n (1 or 2) of the serialization of doc at the handle's offset.
WritePart(content, n, doc) ==
    IF n = 1 THEN Content(Some(doc), Parts(content)[2])
    ELSE Content(Parts(content)[1], Some(doc))

\* json.load accepts the content.
IsDocument(content) == "torn" \notin DOMAIN content

\* A worker entering update_step(project, step_key, status=, outputs=, error=).
Worker(step_key, a) ==
    [project |-> WorkerProject, step_key |-> step_key,
     status |-> a[1], outputs |-> a[2], error |-> a[3],
     pc |-> "enter", now |-> 0, row |-> None, saves |-> << >>, part |-> 0,
     handle |-> "", raised |-> "", ret |-> None, raced |-> FALSE]

\* The stores the workers find: empty, or the project with its first step
\* running.
WorkerStores ==
    { [files |-> EmptyDict, db |-> EmptyDb],
      [files |-> JsonSave(EmptyDict, WorkerProject,
                          JsonUpdateState(_default_state(WorkerProject, 1),
                                          "narrative_deconstructed", Some("running"),
                                          None, None, 1)),
       db |-> _sqlite_update_step(EmptyDb, WorkerProject, "narrative_deconstructed",
                                  Some("running"), None, None, 1)] }

InitWorkers ==
    /\ backend \in {"json", "sqlite"}
    /\ \E st \in WorkerStores :
           /\ files = (IF backend = "json" THEN st.files ELSE EmptyDict)
           /\ db = (IF backend = "sqlite" THEN st.db ELSE EmptyDb)
           /\ prior = [files |-> files, db |-> db]
    /\ clock = 1
    /\ call = Called("start", << >>, "", None, None, None, None, 1)
    /\ ret = None
    /\ listed = {}
    /\ nops = 0
    /\ job = NoJob
    /\ workers \in {<<Worker(k1, a1), Worker(k2, a2)>> :
                       k1 \in WorkerStepKeys, k2 \in WorkerStepKeys,
                       a1 \in WorkerArgs, a2 \in WorkerArgs}
    /\ tmp = EmptyDict

\* Another worker than w is at one of the positions pcs.
OtherAt(w, pcs) == \E v \in DOMAIN workers \ {w} : workers[v].pc \in pcs

\* A step of worker w that leaves it as next.
WorkerStep(w, next) ==
    /\ workers' = [workers EXCEPT ![w] = next]
    /\ UNCHANGED <<backend, call, ret, listed, prior, nops, job>>

\* The exception leaves update_step.
Raised(worker, exception) == [worker EXCEPT !.pc = "raised", !.raised = exception]

\* _sqlite_update_step, the SELECT of the step's row: Some(row), or None.
SqlSelectRow(d, project, step_key) ==
    IF <<project, step_key>> \in DOMAIN d.steps
    THEN Some(d.steps[<<project, step_key>>]) ELSE None

\* _sqlite_update_step, the INSERT of the default row: the primary key
\* (project, step_key) is taken.
SqlInsertConflicts(d, project, step_key, row) ==
    row = None /\ <<project, step_key>> \in DOMAIN d.steps

\* Mutant of SqlWrite: the UPDATE of steps lacks "AND step_key=?".
SqlWriteEveryStep(d, project, step_key, row, status, outputs, error, now) ==
    LET curr == IF row = None THEN DefaultStep ELSE row[1]
        new  == SqlApplyError(
                    SqlApplyOutputs(SqlApplyStatus(curr, status, now), outputs),
                    status, error, now)
        d1   == _sqlite_update_step(d, project, step_key, status, outputs, error, now)
    IN [d1 EXCEPT !.steps = [pk \in DOMAIN @ |-> IF pk[1] = project THEN new ELSE @[pk]]]

\* _sqlite_update_step, the transaction that follows the SELECT, given the row
\* the SELECT returned: INSERT of the default row if there was none, INSERT INTO
\* history, UPDATE artifacts, UPDATE steps SET every column, UPDATE projects.
SqlWrite(d, project, step_key, row, status, outputs, error, now) ==
    LET pk   == <<project, step_key>>
        curr == IF row = None THEN DefaultStep ELSE row[1]
        new  == SqlApplyError(
                    SqlApplyOutputs(SqlApplyStatus(curr, status, now), outputs),
                    status, error, now)
        hist == SqlErrorHistory(
                    SqlStatusHistory(d.history, project, step_key, curr.status, status, now),
                    project, step_key, error, now)
        d2   == [d EXCEPT !.steps = IF row = None \/ pk \in DOMAIN @
                                    THEN (pk :> new) @@ @ ELSE @,
                          !.artifacts = SqlMirror(@, project, outputs),
                          !.history = hist]
    IN _sqlite_update_project_ts(d2, project, now)

\* update_step, sqlite branch: _sqlite_init() and, in _sqlite_update_step, the
\* transaction of _sqlite_init_project and the reading of the clock.
update_step_seed(w, now) ==
    /\ backend = "sqlite"
    /\ workers[w].pc = "enter"
    /\ db' = _sqlite_init_project(db, workers[w].project, now)
    /\ clock' = now
    /\ WorkerStep(w, [workers[w] EXCEPT !.pc = "select", !.now = now])
    /\ UNCHANGED <<files, tmp>>

\* _sqlite_update_step: the SELECT of the row.
update_step_select(w) ==
    /\ workers[w].pc = "select"
    /\ WorkerStep(w, [workers[w] EXCEPT
           !.pc = "write",
           !.row = SqlSelectRow(db, workers[w].project, workers[w].step_key)])
    /\ UNCHANGED <<files, db, clock, tmp>>

\* _sqlite_update_step: the write transaction, or the IntegrityError of its
\* INSERT, which rolls it back.
update_step_write(w) ==
    /\ workers[w].pc = "write"
    /\ LET me == workers[w]
       IN IF SqlInsertConflicts(db, me.project, me.step_key, me.row)
          THEN /\ db' = db
               /\ WorkerStep(w, Raised(me, "IntegrityError"))
          ELSE /\ db' = SqlWrite(db, me.project, me.step_key, me.row,
                                 me.status, me.outputs, me.error, me.now)
               /\ WorkerStep(w, [me EXCEPT !.pc = "load",
                                            !.raced = OtherAt(w, {"write"})])
    /\ UNCHANGED <<files, clock, tmp>>

\* update_step, sqlite branch: return _sqlite_load_project(project_name) or ..
update_step_load(w) ==
    /\ workers[w].pc = "load"
    /\ LET st == _sqlite_load_project(db, workers[w].project)
       IN WorkerStep(w, [workers[w] EXCEPT
              !.pc = "done",
              !.ret = IF st # None THEN st
                      ELSE Some(_default_state(workers[w].project, workers[w].now))])
    /\ UNCHANGED <<files, db, clock, tmp>>

\* update_step, json branch, up to save_project: ensure_project loads the
\* document, or finds none and is to save the default state first; the update
\* is applied to the state in memory.  json.load raises on a content that is not
\* one whole serialization.
update_step_read(w, now) ==
    /\ backend = "json"
    /\ workers[w].pc = "enter"
    /\ LET me    == workers[w]
           path  == get_project_path(me.project)
           found == path \in DOMAIN files
           state == IF found THEN files[path] ELSE _default_state(me.project, now)
       IN IF found /\ ~IsDocument(files[path])
          THEN WorkerStep(w, Raised([me EXCEPT !.now = now], "JSONDecodeError"))
          ELSE LET new == JsonUpdateState(state, me.step_key, me.status, me.outputs,
                                          me.error, now)
               IN WorkerStep(w, [me EXCEPT
                      !.pc = "open", !.now = now, !.ret = Some(new),
                      !.saves = IF found THEN <<new>> ELSE <<state, new>>])
    /\ clock' = now
    /\ UNCHANGED <<files, db, tmp>>

\* save_project, json branch: open(tmp_path, "w") creates the temporary file or
\* truncates the one that is there.
save_project_open(w) ==
    /\ workers[w].pc = "open"
    /\ tmp' = (get_project_path(workers[w].project) :> EmptyFile) @@ tmp
    /\ WorkerStep(w, [workers[w] EXCEPT !.pc = "dump", !.part = 1, !.handle = "tmp"])
    /\ UNCHANGED <<files, db, clock>>

\* save_project, json branch: json.dump writes the next part of the
\* serialization into the file the handle is open on, wherever that file is now.
save_project_dump(w) ==
    /\ workers[w].pc = "dump"
    /\ LET me   == workers[w]
           path == get_project_path(me.project)
           doc  == me.saves[1]
       IN /\ tmp' = IF me.handle = "tmp"
                    THEN [tmp EXCEPT ![path] = WritePart(@, me.part, doc)] ELSE tmp
          /\ files' = IF me.handle = "target"
                      THEN [files EXCEPT ![path] = WritePart(@, me.part, doc)] ELSE files
          /\ WorkerStep(w, [me EXCEPT !.part = IF @ = 1 THEN 2 ELSE 0,
                                      !.pc = IF me.part = 1 THEN "dump" ELSE "replace"])
    /\ UNCHANGED <<db, clock>>

\* Mutant of save_project_replace: the save of an update puts the update on the
\* document that is in the target now, not the snapshot of the temporary file.
SaveProjectMerges(w) ==
    /\ workers[w].pc = "replace"
    /\ LET me   == workers[w]
           path == get_project_path(me.project)
       IN /\ path \in DOMAIN tmp
          /\ files' = IF Len(me.saves) = 1 /\ path \in DOMAIN files
                         /\ "torn" \notin DOMAIN files[path]
                      THEN (path :> JsonUpdateState(files[path], me.step_key, me.status,
                                                    me.outputs, me.error, me.now)) @@ files
                      ELSE (path :> tmp[path]) @@ files
          /\ tmp' = [f \in DOMAIN tmp \ {path} |-> tmp[f]]
          /\ workers' = [workers EXCEPT ![w] =
                 [me EXCEPT !.saves = Tail(@), !.handle = "",
                            !.pc = IF Len(me.saves) > 1 THEN "open" ELSE "done"]]
          /\ UNCHANGED <<backend, call, ret, listed, prior, nops, job>>
    /\ UNCHANGED <<db, clock>>

\* save_project, json branch: the file is closed and os.replace(tmp_path,
\* project_path) moves it over the target, or raises FileNotFoundError when no
\* temporary file is there.  A handle another worker has open on the moved file
\* is now open on the target; one open on the replaced target is on no file of
\* the directory.
save_project_replace(w) ==
    /\ workers[w].pc = "replace"
    /\ LET me   == workers[w]
           path == get_project_path(me.project)
       IN IF path \notin DOMAIN tmp
          THEN /\ WorkerStep(w, Raised([me EXCEPT !.handle = ""], "FileNotFoundError"))
               /\ UNCHANGED <<files, tmp>>
          ELSE /\ files' = (path :> tmp[path]) @@ files
               /\ tmp' = [f \in DOMAIN tmp \ {path} |-> tmp[f]]
               /\ workers' = [v \in DOMAIN workers |->
                      IF v = w
                      THEN [me EXCEPT !.saves = Tail(@), !.handle = "",
                                      !.pc = IF Len(me.saves) > 1 THEN "open" ELSE "done",
                                      !.raced = @ \/ OtherAt(w, {"open", "dump", "replace"})]
                      ELSE [workers[v] EXCEPT
                               !.handle = CASE @ = "tmp" -> "target"
                                            [] @ = "target" -> "unlinked"
                                            [] OTHER -> @]]
               /\ UNCHANGED <<backend, call, ret, listed, prior, nops, job>>
    /\ UNCHANGED <<db, clock>>

NextWorkers ==
    \/ \E w \in DOMAIN workers, now \in Seconds : update_step_seed(w, now)
    \/ \E w \in DOMAIN workers : update_step_select(w)
    \/ \E w \in DOMAIN workers : update_step_write(w)
    \/ \E w \in DOMAIN workers : update_step_load(w)
    \/ \E w \in DOMAIN workers, now \in Seconds : update_step_read(w, now)
    \/ \E w \in DOMAIN workers : save_project_open(w)
    \/ \E w \in DOMAIN workers : save_project_dump(w)
    \/ \E w \in DOMAIN workers : save_project_replace(w)

SpecWorkers == InitWorkers /\ [][NextWorkers]_vars

\* ------------------------------------------------------ the jobs of a story
\* The stage tasks run one after the other on one story: each derives its
\* project name from its input file, and the collaborators of the first two
\* name the file they write after the file they were given.

\* The longest base name of a story file, in parts.
MaxParts == 3

\* What a base name is made of: a letter, a space, ".v", and the two suffixes
\* the derivations strip.
SchemaSuffix == <<"_", "s", "c", "h", "e", "m", "a">>
StoryboardSuffix == <<"_", "s", "t", "o", "r", "y", "b", "o", "a", "r", "d">>
BaseParts == { <<"a">>, <<" ">>, <<".", "v">>, SchemaSuffix, StoryboardSuffix }

RECURSIVE Concat(_)
Concat(parts) == IF parts = << >> THEN << >> ELSE Head(parts) \o Concat(Tail(parts))

Bases == {Concat(parts) : parts \in UNION {[1..n -> BaseParts] : n \in 1..MaxParts}}

\* "in/<base>.txt"
StoryFiles == {<<"i", "n", "/">> \o base \o <<".", "t", "x", "t">> : base \in Bases}

\* str.replace(old, ""): every occurrence of old, from the left, is taken out.
RECURSIVE Remove(_, _)
Remove(str, old) ==
    IF Len(str) < Len(old) THEN str
    ELSE IF SubSeq(str, 1, Len(old)) = old
         THEN Remove(SubSeq(str, Len(old) + 1, Len(str)), old)
         ELSE <<Head(str)>> \o Remove(Tail(str), old)

\* deconstruct_narrative: the schema file it writes and returns,
\* "output/narrative_schema/<base of the story file>_schema.json".
SchemaFilename(story_file) ==
    <<"o", "u", "t", "p", "u", "t", "/", "n", "a", "r", "r", "a", "t", "i", "v", "e",
      "_", "s", "c", "h", "e", "m", "a", "/">>
        \o splitext_root(basename(story_file))
        \o SchemaSuffix \o <<".", "j", "s", "o", "n">>

\* generate_screenplay_and_storyboard: the storyboard file it writes and returns,
\* "output/storyboard_text/<project_name>_storyboard.txt" with project_name the
\* base of the schema file without any "_schema".
StoryboardFilename(schema_file) ==
    <<"o", "u", "t", "p", "u", "t", "/", "s", "t", "o", "r", "y", "b", "o", "a", "r", "d",
      "_", "t", "e", "x", "t", "/">>
        \o Remove(splitext_root(basename(schema_file)), SchemaSuffix)
        \o StoryboardSuffix \o <<".", "t", "x", "t">>

\* A story as it is handed in: no stage has run.
Story(story_file) ==
    [kind |-> "story", story_file |-> story_file,
     schema_file |-> None, storyboard_file |-> None, project_names |-> EmptyDict]

InitStory ==
    /\ backend = "json"
    /\ files = EmptyDict
    /\ db = EmptyDb
    /\ clock = 1
    /\ call = Called("start", << >>, "", None, None, None, None, 1)
    /\ ret = None
    /\ listed = {}
    /\ prior = [files |-> EmptyDict, db |-> EmptyDb]
    /\ nops = 0
    /\ job \in {Story(f) : f \in StoryFiles}
    /\ workers = NoWorkers
    /\ tmp = EmptyDict

\* A task has derived its project name.
Addressed(j, task, project_name) ==
    [j EXCEPT !.project_names = (task :> project_name) @@ @]

\* deconstruct_narrative_task(story_file): the project it reports on and the
\* schema file it returns.
story_deconstruct_narrative ==
    /\ job.kind = "story"
    /\ job' = [Addressed(job, "deconstruct_narrative_task",
                         derive_project_name_from_story_file(job.story_file))
                  EXCEPT !.schema_file = Some(SchemaFilename(job.story_file))]
    /\ NoStoreCall

\* generate_screenplay_and_storyboard_task(schema_file), on the schema file the
\* narrative stage returned.
story_generate_screenplay_and_storyboard ==
    /\ job.kind = "story"
    /\ job.schema_file # None
    /\ job' = [Addressed(job, "generate_screenplay_and_storyboard_task",
                         derive_project_name_from_schema_file(job.schema_file[1]))
                  EXCEPT !.storyboard_file = Some(StoryboardFilename(job.schema_file[1]))]
    /\ NoStoreCall

\* generate_visual_assets_task(storyboard_file), on the storyboard file the
\* screenplay and storyboard stage returned.
story_generate_visual_assets ==
    /\ job.kind = "story"
    /\ job.storyboard_file # None
    /\ job' = Addressed(job, "generate_visual_assets_task",
                        derive_project_name_from_storyboard_file(job.storyboard_file[1]))
    /\ NoStoreCall

\* full_pipeline_task(story_file)
story_full_pipeline ==
    /\ job.kind = "story"
    /\ job' = Addressed(job, "full_pipeline_task",
                        derive_project_name_from_story_file(job.story_file))
    /\ NoStoreCall

NextStory ==
    \/ story_deconstruct_narrative
    \/ story_generate_screenplay_and_storyboard
    \/ story_generate_visual_assets
    \/ story_full_pipeline

SpecStory == InitStory /\ [][NextStory]_vars

\* ------------------------------------------------- what the claims speak of

\* load_project on the stores as they were before the last call.
Before(project_name) ==
    IF backend = "sqlite" THEN _sqlite_load_project(prior.db, project_name)
    ELSE JsonLoad(prior.files, project_name)

\* The step record of step_key in an optional state; the default record when
\* the state or the step is absent (what update_step then starts from).
StepOf(state, step_key) ==
    IF state # None /\ step_key \in DOMAIN state[1].steps
    THEN state[1].steps[step_key] ELSE DefaultStep

\* The history stored for a project, as {time, event, meta} entries in order:
\* the document's history list, or the project's rows of the history table.
RECURSIVE HistoryRows(_, _)
HistoryRows(rows, project) ==
    IF rows = << >> THEN << >>
    ELSE LET h == Head(rows)
         IN (IF h.project = project
             THEN <<[time |-> h.time, event |-> h.event, meta |-> h.meta]>>
             ELSE << >>) \o HistoryRows(Tail(rows), project)

StoredHistory(fs, d, project_name) ==
    IF backend = "sqlite" THEN HistoryRows(d.history, project_name)
    ELSE IF JsonLoad(fs, project_name) = None THEN << >>
         ELSE JsonLoad(fs, project_name)[1].history

HistoryBefore(project_name) == StoredHistory(prior.files, prior.db, project_name)
HistoryAfter(project_name) == StoredHistory(files, db, project_name)

\* The entries of a history whose event is about step_key.
EntriesOf(history, step_key) == SelectSeq(history, LAMBDA h : h.event[2] = step_key)

IsUpdate == call.op = "update"
ErrorOnly == IsUpdate /\ call.status = None /\ call.error # None

\* The project and step the last call named, its step before and after.
P == call.project
K == call.step_key
StepBefore == StepOf(Before(P), K)
StepAfter == StepOf(Loaded(P), K)

\* The entries the last call added to the stored history of its project.
Added == SubSeq(HistoryAfter(P), Len(HistoryBefore(P)) + 1, Len(HistoryAfter(P)))

\* The status or "error" each entry of a history reports.
Events(history) == [i \in DOMAIN history |-> history[i].event[3]]

NonEmpty(v) == v # None /\ v[1] # ""

\* ------------------------------------------------------------------ claims

\* C1: init_project on a project that already exists (after any earlier calls)
\* changes nothing in the store - steps, artifacts, history and updated_at stay
\* as they were - and returns the existing state, under both backends.
InitIdempotent ==
    (call.op = "init" /\ Before(P) # None)
        => /\ files = prior.files
           /\ db = prior.db
           /\ ret = Before(P)

\* An init under sqlite of a project that an update has already changed.
InitIdempotentWitness ==
    /\ call.op = "init"
    /\ backend = "sqlite"
    /\ Before(P) # None
    /\ StepOf(Before(P), "custom_step").status = "failed"
    /\ HistoryBefore(P) # << >>
    /\ Before(P)[1].updated_at < call.now

\* C2: over update_step calls, a step's started_at is null until the first
\* update of that step with status running, which sets it to the time of the
\* call; no later update of any step changes it.
StartedAtSetOnce ==
    IsUpdate =>
        LET before == Before(P)
            after == Loaded(P)[1].steps
        IN \A k \in DOMAIN after :
               LET b == StepOf(before, k).started_at
                   a == after[k].started_at
               IN IF k = K /\ b = None /\ call.status = Some("running")
                  THEN a = Some(call.now)
                  ELSE a = b

\* The retry of a failed step at a later second: started_at stays.
StartedAtSetOnceWitness ==
    /\ IsUpdate
    /\ call.status = Some("running")
    /\ StepBefore.status = "failed"
    /\ StepBefore.started_at # None
    /\ StepBefore.started_at # Some(call.now)
    /\ StepAfter.started_at = StepBefore.started_at

\* C3: an update with status success or failed sets that status and sets
\* finished_at to the time of the call, whatever the status before; and a step
\* whose finished_at is set has a success, failed or error entry in the history.
FinishedAtOnTerminal ==
    /\ (IsUpdate /\ call.status \in {Some("success"), Some("failed")})
           => /\ StepAfter.status = call.status[1]
              /\ StepAfter.finished_at = Some(call.now)
    /\ \A p \in Projects :
           LET state == Loaded(p)
               history == HistoryAfter(p)
           IN state # None =>
                  \A k \in DOMAIN state[1].steps :
                      state[1].steps[k].finished_at # None =>
                          \E i \in DOMAIN history :
                              /\ history[i].event[2] = k
                              /\ history[i].event[3] \in TerminalStatuses \cup {"error"}

\* A success after a failure of an earlier second: finished_at moves on.
FinishedAtOnTerminalWitness ==
    /\ IsUpdate
    /\ call.status = Some("success")
    /\ StepBefore.status = "failed"
    /\ StepBefore.finished_at # None
    /\ StepBefore.finished_at # Some(call.now)
    /\ StepAfter.finished_at = Some(call.now)

\* C4: an update with an error and no status leaves the step failed, with the
\* message as its error, whatever the status before.
ErrorOnlyFails ==
    ErrorOnly => /\ StepAfter.status = "failed"
                 /\ StepAfter.error = call.error

\* An error reported on a step that had succeeded.
ErrorOnlyFailsWitness ==
    /\ ErrorOnly
    /\ StepBefore.status = "success"
    /\ StepAfter.status = "failed"

\* C5 as claimed: an error-only update leaves the finished_at of a step that is
\* already success or failed unchanged.
ErrorOnlyKeepsFinishedAt ==
    (ErrorOnly /\ StepBefore.status \in TerminalStatuses)
        => StepAfter.finished_at = StepBefore.finished_at

\* C5 as amended: an error-only update sets finished_at to the time of the call
\* whatever the status before, also when the step is already success or failed.
ErrorOnlySetsFinishedAt ==
    ErrorOnly => StepAfter.finished_at = Some(call.now)

\* An error reported on a terminal step that finished in an earlier second.
ErrorOnlySetsFinishedAtWitness ==
    /\ ErrorOnly
    /\ StepBefore.status \in TerminalStatuses
    /\ StepBefore.finished_at # None
    /\ StepBefore.finished_at # Some(call.now)

\* C6: after an update with outputs, load returns every recognized artifact key
\* that has a non-empty value in the outputs with that value, for any step key
\* and both backends.
ArtifactsMirrored ==
    (IsUpdate /\ HasOutputs(call.outputs)) =>
        \A a \in ARTIFACT_KEYS :
            (a \in DOMAIN call.outputs[1] /\ call.outputs[1][a] # "")
                => /\ Loaded(P) # None
                   /\ Get(Loaded(P)[1].artifacts, a) = Some(call.outputs[1][a])

\* Outputs of a custom step mirrored under sqlite into a project the call creates.
ArtifactsMirroredWitness ==
    /\ IsUpdate
    /\ backend = "sqlite"
    /\ K = "custom_step"
    /\ call.outputs = OutputsVideo
    /\ Before(P) = None
    /\ Loaded(P)[1].artifacts["video_file"] = Some("v.mp4")

\* Every artifact pointer that was non-empty before the last call, in a document
\* or an artifacts row that exists before and after it, is non-empty after it.
PointersKept ==
    /\ \A f \in DOMAIN prior.files \cap DOMAIN files : \A a \in ARTIFACT_KEYS :
           NonEmpty(Get(prior.files[f].artifacts, a))
               => NonEmpty(Get(files[f].artifacts, a))
    /\ \A p \in DOMAIN prior.db.artifacts \cap DOMAIN db.artifacts : \A a \in ARTIFACT_KEYS :
           NonEmpty(prior.db.artifacts[p][a]) => NonEmpty(db.artifacts[p][a])

HistoryAppended ==
    IsUpdate =>
        LET added == Added
        IN /\ SubSeq(HistoryAfter(P), 1, Len(HistoryBefore(P))) = HistoryBefore(P)
           /\ call.status # None =>
                  /\ Cardinality({i \in DOMAIN added :
                         added[i].event = StepEvent(K, call.status[1])}) = 1
                  /\ \A i \in DOMAIN added :
                         added[i].event = StepEvent(K, call.status[1])
                             => /\ added[i].meta = PrevMeta(StepBefore.status)
                                /\ added[i].time = call.now
           /\ ErrorOnly => /\ Len(added) = 1
                           /\ added[1].event = StepEvent(K, "error")
           /\ (call.status = None /\ call.error = None) => added = << >>

\* A failed update with an error, under sqlite, on a step the call creates.
HistoryAppendedWitness ==
    /\ IsUpdate
    /\ backend = "sqlite"
    /\ call.status = Some("failed")
    /\ call.error # None
    /\ Before(P) # None
    /\ K \notin DOMAIN Before(P)[1].steps
    /\ HistoryBefore(P) # << >>
    /\ Events(Added) = <<"failed", "error">>

\* The end-to-end scenario: the project's stored history is the one running
\* entry of the step, and the step is now updated to success with outputs.
RunningThenSuccess ==
    /\ IsUpdate
    /\ call.status = Some("success")
    /\ HasOutputs(call.outputs)
    /\ Len(HistoryBefore(P)) = 1
    /\ HistoryBefore(P)[1].event = StepEvent(K, "running")
    /\ HistoryBefore(P)[1].meta = PrevMeta("not_started")

\* C9 as claimed: in the scenario, the state update_step returns and the state
\* load returns have exactly two history entries for the step, running before
\* success, under both backends.
HistoryObservableInOrder ==
    RunningThenSuccess =>
        /\ Events(EntriesOf(ret[1].history, K)) = <<"running", "success">>
        /\ Events(EntriesOf(Loaded(P)[1].history, K)) = <<"running", "success">>

\* C9 as amended: under the document backend the returned and the loaded state
\* have the two entries in that order; under the relational backend the history
\* table holds them in that order, and the returned and loaded history are empty.
HistoryInOrderWhereKept ==
    RunningThenSuccess =>
        IF backend = "json"
        THEN /\ Events(EntriesOf(ret[1].history, K)) = <<"running", "success">>
             /\ Events(EntriesOf(Loaded(P)[1].history, K)) = <<"running", "success">>
        ELSE /\ Events(EntriesOf(HistoryAfter(P), K)) = <<"running", "success">>
             /\ ret[1].history = << >>
             /\ Loaded(P)[1].history = << >>

\* The scenario under the document backend, the success a second after the start.
HistoryInOrderWitness ==
    /\ RunningThenSuccess
    /\ backend = "json"
    /\ StepAfter.status = "success"
    /\ StepAfter.started_at # StepAfter.finished_at

\* C10: after delete_project, load returns None and list does not contain the
\* project, under both backends; deleting a project that does not exist changes
\* nothing.
DeleteThenAbsent ==
    call.op = "delete" =>
        /\ Loaded(P) = None
        /\ P \notin Listed
        /\ Before(P) = None => (files = prior.files /\ db = prior.db)

\* The delete, under sqlite, of a project with a custom step and a history.
DeleteThenAbsentWitness ==
    /\ call.op = "delete"
    /\ backend = "sqlite"
    /\ Before(P) # None
    /\ "custom_step" \in DOMAIN Before(P)[1].steps
    /\ HistoryBefore(P) # << >>
    /\ db.history = << >>

\* No document is stored under the file of the project, and no project row
\* under its name, before the last call.
AbsentBefore(project_name) ==
    IF backend = "sqlite" THEN project_name \notin DOMAIN prior.db.projects
    ELSE get_project_path(project_name) \notin DOMAIN prior.files

\* C11: load_project of a project that has no persisted state (never created, or
\* deleted) returns None and creates nothing: the document files and the
\* database tables, hence the set of persisted projects and the state of every
\* other project, are as they were before the call.
LoadOfAbsentReadsOnly ==
    (call.op = "load" /\ AbsentBefore(P))
        => /\ ret = None
           /\ files = prior.files
           /\ db = prior.db
           /\ Listed = IF backend = "sqlite" THEN _sqlite_list_projects(prior.db)
                       ELSE JsonList(prior.files)

\* Under sqlite, the load of a missing project next to a project with a failed
\* custom step.
LoadOfAbsentWitness ==
    /\ call.op = "load"
    /\ backend = "sqlite"
    /\ AbsentBefore(P)
    /\ DOMAIN prior.db.projects # {}
    /\ \E q \in DOMAIN db.projects :
           /\ <<q, "custom_step">> \in DOMAIN db.steps
           /\ db.steps[<<q, "custom_step">>].status = "failed"
    /\ ret = None

\* What a caller of load_project observes of steps and artifacts: the step keys,
\* each step's status, whether its started_at and finished_at are set, its
\* error and outputs, and the four artifact pointers.
Observed(state) ==
    IF state = None THEN None
    ELSE Some([steps |-> [k \in DOMAIN state[1].steps |->
                            [status |-> state[1].steps[k].status,
                             started |-> state[1].steps[k].started_at # None,
                             finished |-> state[1].steps[k].finished_at # None,
                             error |-> state[1].steps[k].error,
                             outputs |-> state[1].steps[k].outputs]],
               artifacts |-> [a \in ARTIFACT_KEYS |-> Get(state[1].artifacts, a)]])

\* C12 as claimed: after every call of a sequence of init, update_step and
\* delete calls handed to both backends, load_project of the project the call
\* named shows the same steps and artifacts under the document backend as under
\* the relational backend.
BackendsObservedEqual ==
    call.op \in {"init", "update", "delete"}
        => Observed(JsonLoad(files, P)) = Observed(_sqlite_load_project(db, P))

\* C13 as claimed: under both backends, the state load_project returns for a
\* stored project has a step record for every canonical step key, and a
\* canonical key that the stored document or the step rows lack is returned as
\* not_started with no timestamps.
CanonicalStepsOnLoad ==
    \A p \in Projects :
        Loaded(p) # None =>
            \A k \in CanonicalSteps :
                /\ k \in DOMAIN Loaded(p)[1].steps
                /\ (backend = "sqlite" /\ <<p, k>> \notin DOMAIN db.steps)
                       => Loaded(p)[1].steps[k] = DefaultStep

\* The state init_project has just created, stored and returned for a project
\* that had no persisted state: each key of keys is a step that is not_started
\* with no timestamps, no error and no outputs, the four artifact pointers are
\* empty and the history is empty.
FreshStateHas(keys) ==
    /\ Loaded(P) # None
    /\ ret = Loaded(P)
    /\ \A k \in keys :
           /\ k \in DOMAIN Loaded(P)[1].steps
           /\ Loaded(P)[1].steps[k] =
                  [status |-> "not_started", started_at |-> None, finished_at |-> None,
                   error |-> None, outputs |-> EmptyDict]
    /\ \A a \in ARTIFACT_KEYS : Get(Loaded(P)[1].artifacts, a) = None
    /\ Loaded(P)[1].history = << >>
    /\ HistoryAfter(P) = << >>

\* C14 as claimed: init_project on a fresh project creates a default state with
\* each of eight canonical steps - the five pipeline steps and
\* soundtrack_generated, voiceover_generated, final_film_assembled - not_started,
\* empty artifact pointers and an empty history.
InitSeedsEightSteps ==
    (call.op = "init" /\ AbsentBefore(P))
        => FreshStateHas({"narrative_deconstructed", "screenplay_generated",
                          "storyboard_generated", "visual_assets_generated",
                          "video_synthesized", "soundtrack_generated",
                          "voiceover_generated", "final_film_assembled"})

\* C14 as amended: the default state has exactly the five steps of
\* PIPELINE_STEPS (narrative_deconstructed, screenplay_generated,
\* storyboard_generated, visual_assets_generated, video_synthesized), each
\* not_started with no timestamps, error or outputs, empty artifact pointers
\* and an empty history.
InitSeedsPipelineSteps ==
    (call.op = "init" /\ AbsentBefore(P))
        => /\ FreshStateHas({"narrative_deconstructed", "screenplay_generated",
                             "storyboard_generated", "visual_assets_generated",
                             "video_synthesized"})
           /\ Cardinality(DOMAIN Loaded(P)[1].steps) = 5

\* The third call, at second 2, is the init of a project with no persisted state
\* next to a stored one.
InitSeedsWitness ==
    /\ call.op = "init"
    /\ AbsentBefore(P)
    /\ nops = 3
    /\ IF backend = "sqlite" THEN prior.db.projects # EmptyDict
                             ELSE prior.files # EmptyDict
    /\ Loaded(P) # None
    /\ Loaded(P)[1].created_at = 2

ShowsExactly(doc) ==
    LET state == _sqlite_load_project(db, doc.project)
    IN /\ state # None
       /\ DOMAIN state[1].steps = DOMAIN doc.steps \cup CanonicalSteps
       /\ \A k \in DOMAIN state[1].steps :
              state[1].steps[k] = IF k \in DOMAIN doc.steps THEN doc.steps[k]
                                  ELSE DefaultStep
       /\ \A a \in ARTIFACT_KEYS : state[1].artifacts[a] = Get(doc.artifacts, a)

\* C16 as claimed: after the import of a document carrying a project, and after
\* a migration for every migrated document, the relational load of the project
\* has exactly the steps and artifacts of the document (plus synthesized
\* canonical steps): no step row and no artifact value from before survives.
ImportOverwritesAll ==
    /\ (call.op = "import" /\ CarriesProject(call.data[1]))
           => ShowsExactly(call.data[1])
    /\ call.op = "migrate"
           => \A f \in DOMAIN files : CarriesProject(files[f]) => ShowsExactly(files[f])

\* C17 as claimed: a task dispatched without the generation-service project
\* makes exactly one attempt, is never put back for a retry, never calls a
\* collaborator, and ends in FAILURE.
ConfigErrorFailsOnce ==
    (job.kind # "none" /\ ~job.configured) =>
        /\ job.attempts <= 1
        /\ job.state # "RETRY"
        /\ job.invoked = << >>
        /\ job.block = "done" => job.state = "FAILURE"

\* The step keys a task marks running.
StepsOfTask(task) ==
    {task.try[i].key : i \in {n \in DOMAIN task.try :
        task.try[n].op = "update_step" /\ task.try[n].status = "running"}}

\* The last attempt has ended with an exception, or is at the raise that ends
\* it, and no later attempt has started.
AttemptRaised ==
    /\ job.kind # "none"
    /\ job.exc # None
    /\ Current.op = "raise" \/ job.block \in {"queue", "done"}

\* The exception of the last attempt came out of a collaborator.
RaisedByCollaborator == job.raised_by \notin {"", "_require_env"}

Stages ==
    << [fn |-> "deconstruct_narrative", steps |-> {"narrative_deconstructed"}],
       [fn |-> "generate_screenplay_and_storyboard",
        steps |-> {"screenplay_generated", "storyboard_generated"}],
       [fn |-> "generate_visual_assets", steps |-> {"visual_assets_generated"}],
       [fn |-> "synthesize_video_from_storyboard", steps |-> {"video_synthesized"}] >>

\* The stage whose collaborator raised in the last attempt.
FailedStage == CHOOSE i \in DOMAIN Stages : Stages[i].fn = job.raised_by

\* The update_step calls of the current attempt on the steps of keys.
CallsOn(keys) == SelectSeq(job.calls, LAMBDA c : c[1] \in keys)

\* C19 as claimed: when an attempt of full_pipeline_task ends with an exception
\* of a stage's collaborator, the steps of the earlier stages are still
\* success, the steps of the stage that raised are failed with the exception's
\* message, and the attempt has made no update_step call on a step of a later
\* stage (video_synthesized is untouched by a failure of an earlier stage).
CompositeFailureIsLocal ==
    (job.kind = "full_pipeline_task" /\ AttemptRaised /\ RaisedByCollaborator) =>
        LET steps == Loaded(JobTask.project_name)[1].steps
        IN \A i \in DOMAIN Stages : \A k \in Stages[i].steps :
               /\ i < FailedStage => steps[k].status = "success"
               /\ i = FailedStage => /\ steps[k].status = "failed"
                                     /\ steps[k].error = job.exc
               /\ i > FailedStage => CallsOn({k}) = << >>

\* The update instructions of a list of instructions, as the update_step calls
\* <<key, status, outputs, error>> they make with the given locals and exception.
UpdatesOf(instructions, locals, exc) ==
    LET updates == SelectSeq(instructions, LAMBDA ins : ins.op = "update_step")
    IN [n \in DOMAIN updates |->
           <<updates[n].key>> \o UpdateArgsOf(updates[n], locals, exc)]

\* The update_step calls of one attempt of a stage task that reaches its
\* collaborator: those before the call, then those of the except block if the
\* collaborator raised, else those after the call.
StandaloneCalls(task, raised, locals, exc) ==
    LET at == CHOOSE n \in DOMAIN task.try : task.try[n].op = "call"
    IN UpdatesOf(SubSeq(task.try, 1, at - 1), locals, exc)
           \o (IF raised THEN UpdatesOf(task.except, locals, exc)
               ELSE UpdatesOf(SubSeq(task.try, at + 1, Len(task.try)), locals, exc))

\* The stage task that calls the collaborator of stage i.
StageTaskOf(i) ==
    CHOOSE t \in StageTasks : \E n \in DOMAIN t.try : t.try[n] = Collaborator(Stages[i].fn)

\* The attempt is at the return or the raise that ends it, or has ended.
AttemptEnded ==
    /\ job.kind # "none"
    /\ job.attempts > 0
    /\ Current.op \in {"return", "raise"} \/ job.block \in {"queue", "done"}

Invoked(fn) == \E n \in DOMAIN job.invoked : job.invoked[n] = fn

\* C20 as claimed: for the narrative, the screenplay/storyboard and the
\* visual-assets stage, an attempt of full_pipeline_task that reaches the
\* stage's collaborator makes the same update_step calls on the stage's steps
\* as the standalone task of the stage makes in an attempt with the same
\* outcome: running, then success with the same outputs if the collaborator
\* returned, or failed with the exception's message if it raised.
CompositeUpdatesAsStandalone ==
    /\ (AttemptEnded /\ JobTask \in StageTasks /\ job.invoked # << >>)
           => job.calls = StandaloneCalls(JobTask, job.exc # None, job.locals, job.exc)
    /\ (AttemptEnded /\ job.kind = "full_pipeline_task")
           => \A i \in 1..3 :
                  Invoked(Stages[i].fn)
                      => CallsOn(Stages[i].steps)
                             = StandaloneCalls(StageTaskOf(i), job.raised_by = Stages[i].fn,
                                               job.locals, job.exc)

\* The job has left the worker for good: it returned, or raised with no retry left.
JobDone == job.kind # "none" /\ job.block = "done"

\* 1 + max_retries
MaxAttempts(task) == 1 + task.max_retries

\* In every state: a stage task has made at most 4 attempts and the composite
\* at most 2; a job that is done is in SUCCESS or FAILURE; and a job done after
\* an attempt that raised is in FAILURE after exactly 1 + max_retries attempts,
\* each of which raised.
AttemptsBounded ==
    job.kind # "none" =>
        /\ job.attempts <= MaxAttempts(JobTask)
        /\ JobTask \in StageTasks => job.attempts <= 4
        /\ job.kind = "full_pipeline_task" => job.attempts <= 2
        /\ JobDone => job.state \in {"SUCCESS", "FAILURE"}
        /\ (JobDone /\ job.exc # None) =>
               /\ job.state = "FAILURE"
               /\ job.attempts = MaxAttempts(JobTask)
               /\ job.retries = JobTask.max_retries

\* C21: retries are bounded and every job terminates.  With collaborators that
\* return or raise, a stage task makes at most 4 attempts and the composite at
\* most 2, every dispatched job eventually is done for good in SUCCESS or
\* FAILURE, and a job whose attempts all raise is done in FAILURE after exactly
\* 1 + max_retries attempts.
RetriesBoundedAndJobsEnd ==
    /\ []AttemptsBounded
    /\ <>[](JobDone /\ job.state \in {"SUCCESS", "FAILURE"})

\* A stage task done in FAILURE after its fourth attempt, the collaborator
\* having raised in the last one, and the composite done likewise after its
\* second.
RetriesExhaustedWitness ==
    /\ JobDone
    /\ RaisedByCollaborator
    /\ job.state = "FAILURE"
    /\ \/ JobTask \in StageTasks /\ job.attempts = 4
       \/ job.kind = "full_pipeline_task" /\ job.attempts = 2
              /\ job.raised_by = "generate_visual_assets"

\* The workers' project as load_project shows it.
WorkerRows(d) ==
    [k \in WorkerStepKeys |-> Get([pk \in {q \in DOMAIN d.steps : q[1] = WorkerProject}
                                      |-> Some(d.steps[pk])],
                                  <<WorkerProject, k>>)]

\* The database after the calls of the two workers made one after the other
\* from the database they found, in the given order, each with the time it read.
SerialDb(order) ==
    LET first == workers[order[1]]
        second == workers[order[2]]
        d1 == _sqlite_update_step(prior.db, first.project, first.step_key, first.status,
                                  first.outputs, first.error, first.now)
    IN _sqlite_update_step(d1, second.project, second.step_key, second.status,
                           second.outputs, second.error, second.now)

SerialOrders == {<<1, 2>>, <<2, 1>>}

\* Both workers are through their write, or out of the call with an exception.
WritesOver == workers # NoWorkers /\ \A w \in DOMAIN workers : workers[w].pc \in {"load", "done", "raised"}

\* C22: under sqlite, when two workers have made their update_step calls on
\* different step keys of one project, in whatever interleaving of their
\* statements, no call has raised and both steps' rows (status, started_at,
\* finished_at, error, outputs) and the project's artifact pointers are those of
\* the two calls made one after the other in some order.
DifferentKeysAsSerial ==
    (backend = "sqlite" /\ WritesOver /\ workers[1].step_key # workers[2].step_key) =>
        /\ \A w \in DOMAIN workers : workers[w].raised = ""
        /\ \E order \in SerialOrders :
               /\ \A w \in DOMAIN workers :
                      LET pk == <<WorkerProject, workers[w].step_key>>
                      IN /\ pk \in DOMAIN db.steps
                         /\ db.steps[pk] = SerialDb(order).steps[pk]
               /\ db.artifacts = SerialDb(order).artifacts

\* Worker 1 set narrative_deconstructed to success with schema_file s.json and
\* worker 2 gave custom_step, a step unknown until then, outputs with schema_file
\* t.json; each read its row before the other wrote, worker 2 wrote last and its
\* pointer is the one kept.
DifferentKeysWitness ==
    /\ backend = "sqlite"
    /\ WritesOver
    /\ workers[1].step_key = "narrative_deconstructed"
    /\ workers[1].status = Some("success")
    /\ workers[2].step_key = "custom_step"
    /\ workers[2].outputs = OutputsImagesAndSchema
    /\ workers[1].raced
    /\ workers[2].row = None
    /\ prior.db # EmptyDb
    /\ db.steps[<<WorkerProject, "narrative_deconstructed">>].status = "success"
    /\ db.steps[<<WorkerProject, "custom_step">>].outputs = OutputsImagesAndSchema[1]
    /\ db.artifacts[WorkerProject]["schema_file"] = Some("t.json")

\* C23 as claimed: under sqlite, when two workers have made their update_step
\* calls on the same step key of one project, in whatever interleaving of
\* their SELECT and their write, no call has raised and the step's row is the
\* one some serial order of the two calls leaves: outputs of both calls are in
\* the row, and no call has written over the other's values from a stale read.
SameKeyAsSerial ==
    (backend = "sqlite" /\ WritesOver /\ workers[1].step_key = workers[2].step_key) =>
        /\ \A w \in DOMAIN workers : workers[w].raised = ""
        /\ \E order \in SerialOrders :
               LET pk == <<WorkerProject, workers[1].step_key>>
               IN /\ pk \in DOMAIN db.steps
                  /\ db.steps[pk] = SerialDb(order).steps[pk]

\* C24 as claimed: under json, while two workers save the same project, every
\* "*.json" file of the directory holds one whole serialization, so that a load
\* at any moment reads a complete document, no update_step has failed reading
\* one, and no save has failed because its temporary file was gone.
DocumentsWholeAndSavesSucceed ==
    (backend = "json" /\ workers # NoWorkers) =>
        /\ \A f \in DOMAIN files : IsDocument(files[f])
        /\ \A w \in DOMAIN workers : workers[w].raised = ""

\* The message short is the leading characters of the message long.
IsPrefix(short, long) == short.text = long.text /\ short.len <= long.len

\* The messages of the "error" history entries the last call added.
AddedErrors ==
    {Added[i].meta[2] : i \in {n \in DOMAIN Added : Added[n].meta[1] = "error"}}

\* C25 as claimed: after an update_step call with an error message, the error
\* field of the step as load_project shows it and the meta.error of the history
\* entry the call added are each at most 500 characters long and a prefix of
\* the message.
ErrorsTruncated ==
    (IsUpdate /\ call.error # None) =>
        /\ StepAfter.error # None
        /\ StepAfter.error[1].len <= ERROR_LIMIT
        /\ IsPrefix(StepAfter.error[1], call.error[1])
        /\ AddedErrors # {}
        /\ \A msg \in AddedErrors :
               msg.len <= ERROR_LIMIT /\ IsPrefix(msg, call.error[1])

\* C26 as claimed: after any sequence of init, update_step, load, list and
\* delete calls, a project name as the callers pass it is in the result of
\* list_projects exactly if load_project of that name returns a state.
ListedIffLoadable ==
    \A p \in Projects : p \in Listed <=> Loaded(p) # None

\* The file of the project the last call named held, when the call started,
\* text that does not parse.
CorruptBefore == call.op \in {"load", "init", "update"} /\ JsonCorrupt(prior.files, P)

\* C27: under json, a load_project, init_project or update_step call on a
\* project whose file exists but does not parse raises the decoder's error: it
\* returns neither None nor a state, and it leaves every file as it was, the
\* corrupt one included (no default state is written over it).
CorruptIsAnError ==
    CorruptBefore =>
        /\ ret = Raises("JSONDecodeError")
        /\ ret # None
        /\ files = prior.files
        /\ JsonCorrupt(files, P)

\* The third call is an update_step on the project whose file does not parse,
\* after a step of the sound project next to it was updated; it raised.
CorruptIsAnErrorWitness ==
    /\ nops = 3
    /\ call.op = "update"
    /\ CorruptBefore
    /\ ret = Raises("JSONDecodeError")
    /\ \E f \in DOMAIN files : Parses(files[f]) /\ files[f].history # << >>

\* The file of the workers' project.
WorkerPath == get_project_path(WorkerProject)

\* The document worker w saves when it has read the document the workers found
\* (or found none): that document with w's update on it.
SnapshotOf(w) ==
    LET me == workers[w]
        base == IF WorkerPath \in DOMAIN prior.files THEN prior.files[WorkerPath]
                ELSE _default_state(me.project, me.now)
    IN JsonUpdateState(base, me.step_key, me.status, me.outputs, me.error, me.now)

\* Both workers are out of update_step without an exception, each having saved
\* the document it read before the other replaced it, on different step keys.
BothSavedStale ==
    /\ backend = "json"
    /\ workers # NoWorkers
    /\ workers[1].step_key # workers[2].step_key
    /\ \A w \in DOMAIN workers :
           /\ workers[w].pc = "done"
           /\ workers[w].ret = Some(SnapshotOf(w))

\* The document doc shows nothing of the update of worker w: the step is as the
\* workers found it (absent, or the default record, where they found none) and
\* the history has no entry about it beyond those found.
UpdateAbsent(doc, w) ==
    LET k == workers[w].step_key
        found == IF WorkerPath \in DOMAIN prior.files THEN prior.files[WorkerPath]
                 ELSE _default_state(WorkerProject, 1)
    IN /\ k \in DOMAIN doc.steps => /\ k \in DOMAIN found.steps
                                    /\ doc.steps[k] = found.steps[k]
       /\ EntriesOf(doc.history, k) = EntriesOf(found.history, k)

\* C28: under json, when two workers have updated different steps of one
\* project, each from the document as it was before the other saved, and both
\* calls returned, the document left is the whole snapshot of one of them, and
\* the update of the other (its status, its outputs, its history entry) is not
\* in it.
LaterSnapshotWins ==
    BothSavedStale =>
        /\ IsDocument(files[WorkerPath])
        /\ \E w \in DOMAIN workers :
               /\ files[WorkerPath] = SnapshotOf(w)
               /\ \A v \in DOMAIN workers \ {w} : UpdateAbsent(files[WorkerPath], v)

\* Worker 1 set screenplay_generated to success with schema_file s.json and
\* returned that state; worker 2 failed custom_step from the document it had
\* read before and replaced the document after worker 1: screenplay_generated
\* is not_started again, the pointer is gone and so is the history entry.
LostUpdateWitness ==
    /\ BothSavedStale
    /\ WorkerPath \in DOMAIN prior.files
    /\ workers[1].step_key = "screenplay_generated"
    /\ workers[1].status = Some("success")
    /\ workers[2].step_key = "custom_step"
    /\ workers[2].error = ErrorBoom
    /\ workers[1].raced
    /\ files[WorkerPath] = SnapshotOf(2)
    /\ files[WorkerPath].steps["screenplay_generated"].status = "not_started"
    /\ files[WorkerPath].artifacts["schema_file"] = None
    /\ workers[1].ret[1].steps["screenplay_generated"].status = "success"
    /\ EntriesOf(files[WorkerPath].history, "screenplay_generated") = << >>

\* The last call was an update_step with outputs and neither status nor error.
OutputsOnly ==
    IsUpdate /\ call.status = None /\ call.error = None /\ HasOutputs(call.outputs)

\* The step keys of a loaded state, none for no state.
KeysOf(state) == IF state = None THEN {} ELSE DOMAIN state[1].steps

\* What the stores hold of the projects kept apart from project_name: the
\* other files of the directory, and the rows of other projects in each table.
OthersIn(fs, d, project_name) ==
    [files |-> [f \in DOMAIN fs \ {get_project_path(project_name)} |-> fs[f]],
     projects |-> [q \in DOMAIN d.projects \ {project_name} |-> d.projects[q]],
     steps |-> [pk \in {q \in DOMAIN d.steps : q[1] # project_name} |-> d.steps[pk]],
     artifacts |-> [q \in DOMAIN d.artifacts \ {project_name} |-> d.artifacts[q]],
     history |-> SelectSeq(d.history, LAMBDA h : h.project # project_name)]

\* C29: an update_step call with only outputs leaves the step's status,
\* started_at, finished_at and error as they were, leaves the step's outputs
\* with the given keys at the given values and every other key as stored
\* before, and changes no other step of the project and nothing of any other
\* project.
OutputsOnlyMerges ==
    OutputsOnly =>
        /\ StepAfter.status = StepBefore.status
        /\ StepAfter.started_at = StepBefore.started_at
        /\ StepAfter.finished_at = StepBefore.finished_at
        /\ StepAfter.error = StepBefore.error
        /\ DOMAIN StepAfter.outputs = DOMAIN StepBefore.outputs \cup DOMAIN call.outputs[1]
        /\ \A o \in DOMAIN StepAfter.outputs :
               StepAfter.outputs[o] = IF o \in DOMAIN call.outputs[1]
                                      THEN call.outputs[1][o]
                                      ELSE StepBefore.outputs[o]
        /\ \A k \in (KeysOf(Loaded(P)) \cup KeysOf(Before(P))) \ {K} :
               StepOf(Loaded(P), k) = StepOf(Before(P), k)
        /\ OthersIn(files, db, P) = OthersIn(prior.files, prior.db, P)

\* The third call gives narrative_deconstructed, failed with outputs
\* schema_file and images_dir stored, the outputs schema_file "" and
\* video_file: images_dir is kept, the step is still failed, and project "c"
\* is as it was.
OutputsOnlyWitness ==
    /\ nops = 3
    /\ OutputsOnly
    /\ call.outputs = OutputsVideo
    /\ K = "narrative_deconstructed"
    /\ StepBefore.status = "failed"
    /\ StepBefore.outputs = OutputsSchema[1]
    /\ StepAfter.outputs =
           ("schema_file" :> "") @@ ("video_file" :> "v.mp4") @@ ("images_dir" :> "img")
    /\ StepAfter.status = "failed"
    /\ Loaded(<<"c">>) # None
    /\ StepOf(Loaded(<<"c">>), "narrative_deconstructed").status = "success"

\* The record update_step leaves of a step it had to register: the default
\* record with the call's status, outputs and error on it.
Registered ==
    LET status == IF Truthy(call.status) THEN call.status[1]
                  ELSE IF call.error # None THEN "failed" ELSE "not_started"
    IN [status |-> status,
        started_at |-> IF status = "running" THEN Some(call.now) ELSE None,
        finished_at |-> IF status \in TerminalStatuses THEN Some(call.now) ELSE None,
        error |-> call.error,
        outputs |-> IF HasOutputs(call.outputs) THEN call.outputs[1] ELSE EmptyDict]

\* C30: after an init_project or update_step call the project exists and has a
\* record for every step key it had before; after an update_step it has a
\* record for the key named, and where it had none before (the project itself
\* may not have existed) that record is the default not_started record with
\* the update applied; the step keys of the other projects are as before.
StepKeysOnlyGrow ==
    call.op \in {"init", "update"} =>
        /\ Loaded(P) # None
        /\ KeysOf(Before(P)) \subseteq KeysOf(Loaded(P))
        /\ CanonicalSteps \subseteq KeysOf(Loaded(P))
        /\ IsUpdate => K \in KeysOf(Loaded(P))
        /\ (IsUpdate /\ K \notin KeysOf(Before(P))) => StepAfter = Registered
        /\ call.op = "init" => KeysOf(Loaded(P)) = KeysOf(Before(P)) \cup CanonicalSteps
        /\ \A q \in FrameProjects \ {P} : KeysOf(Loaded(q)) = KeysOf(Before(q))

\* The third call registers custom_step with outputs on the project "a b",
\* which did not exist before; project "c" has had its own custom_step since
\* the first call.
StepKeysOnlyGrowWitness ==
    /\ nops = 3
    /\ IsUpdate
    /\ P = <<"a", " ", "b">>
    /\ K = "custom_step"
    /\ Before(P) = None
    /\ StepAfter.outputs = OutputsSchema[1]
    /\ StepAfter.status = "not_started"
    /\ KeysOf(Loaded(P)) = CanonicalSteps \cup {"custom_step"}
    /\ StepOf(Loaded(<<"c">>), "custom_step").status = "failed"

\* short is long cut after its first Len(short) entries.
StartsWith(long, short) ==
    Len(short) <= Len(long) /\ SubSeq(long, 1, Len(short)) = short

\* C31: over init, update_step, full-state save, import and migration (every
\* store call but delete), the history stored for a project before the call is
\* a prefix of the history stored after it: no entry is changed, moved or
\* removed.
HistoryAppendOnly ==
    call.op \in {"init", "update", "save", "import", "migrate"} =>
        \A p \in Projects : StartsWith(HistoryAfter(p), HistoryBefore(p))

\* C32: an update without an error argument leaves the step's error as it was,
\* except that an update with status running on a step that carries an error
\* resets the error to null.
ErrorClearedByNewRun ==
    (IsUpdate /\ call.error = None) =>
        IF call.status = Some("running") /\ StepBefore.error # None
        THEN StepAfter.error = None
        ELSE StepAfter.error = StepBefore.error

\* What n attempts that raised leave in the history of a step: for each, the
\* running entry, the failed entry and the error entry that goes with it.
RECURSIVE FailedAttempts(_)
FailedAttempts(n) ==
    IF n = 0 THEN << >> ELSE <<"running", "failed", "error">> \o FailedAttempts(n - 1)

\* A stage task has returned after at least one attempt that raised.
SucceededOnRetry ==
    /\ JobDone
    /\ job.state = "SUCCESS"
    /\ JobTask \in StageTasks
    /\ job.attempts >= 2

StoryJobsShareProject ==
    job.kind = "story" =>
        \A t, u \in DOMAIN job.project_names : job.project_names[t] = job.project_names[u]

\* The job's project as load_project shows it, and its stored history.
JobProject == Loaded(JobTask.project_name)
JobHistory == HistoryAfter(JobTask.project_name)

\* The steps the job has marked running in some attempt.
MarkedRunning ==
    {k \in CanonicalSteps :
        \E i \in DOMAIN JobHistory : JobHistory[i].event = StepEvent(k, "running")}

\* C35: once a stage task or the composite task is done for good (it returned,
\* or raised in its last attempt), no step it marked running is still running:
\* each has been marked success or failed.
NoStepLeftRunning ==
    (job.kind # "none" /\ JobDone) =>
        \A k \in MarkedRunning : StepOf(JobProject, k).status \in TerminalStatuses

\* The steps a task owns: the five pipeline steps for the composite task, the
\* steps it marks running for a stage task.
OwnedSteps(task) ==
    IF task.name = "full_pipeline_task" THEN CanonicalSteps ELSE StepsOfTask(task)

\* C36: when a job has returned normally (state SUCCESS), every step it owns
\* has status success: the five pipeline steps for the composite task, its own
\* steps for a stage task.
SuccessMeansStepsSucceeded ==
    (JobDone /\ job.state = "SUCCESS") =>
        \A k \in OwnedSteps(JobTask) : StepOf(JobProject, k).status = "success"

\* The timestamps of a step record are in order, and a success has a start.
StepOrdered(step) ==
    /\ (step.started_at # None /\ step.finished_at # None)
           => step.started_at[1] <= step.finished_at[1]
    /\ step.status = "success" => step.started_at # None

\* C37: in every state reached by update_step calls on a clock that never
\* goes back, every step of every project has started_at <= finished_at when
\* both are set, and a step that is success has a started_at.
TimestampsOrdered ==
    \A p \in Projects :
        LET state == Loaded(p)
        IN state # None => \A k \in DOMAIN state[1].steps : StepOrdered(state[1].steps[k])

\* C38: under the document backend, init, update_step and delete on one
\* project identifier leave what load returns for every other identifier as it
\* was, and init returns a state of the identifier it was called with (a fresh
\* default state when that identifier was never created), not the state of
\* another one.
IdentifiersIndependent ==
    (backend = "json" /\ call.op \in {"init", "update", "delete"}) =>
        /\ \A q \in Projects \ {P} : Loaded(q) = Before(q)
        /\ call.op = "init" => ret[1].project = P

\* A loaded state shows every step and every artifact pointer of a document as
\* the document has them.
Returns(state, doc) ==
    /\ state # None
    /\ \A k \in DOMAIN doc.steps :
           k \in DOMAIN state[1].steps /\ state[1].steps[k] = doc.steps[k]
    /\ \A a \in DOMAIN doc.artifacts : Get(state[1].artifacts, a) = doc.artifacts[a]

\* C39: after save_project(P, S), load_project(P) returns the steps and the
\* artifacts of S, under both backends: the document is stored under the name
\* P of the call, also when its own project field is missing or another name,
\* and is never dropped.
SaveRoundTrips ==
    call.op = "save" => Returns(Loaded(P), call.data[1])
====
